---- MODULE Spec2Model ----
(***************************************************************************)
(* Tiered memory engine of nuclaw (src/src/memory.rs): HotMemory (bounded  *)
(* LRU cache), WarmMemory and ColdMemory (SQLite tables) and the           *)
(* TieredMemory facade (remember, recall, forget, maintain).               *)
(*                                                                         *)
(* Time is counted in ticks; TicksPerDay ticks make one calendar day.      *)
(***************************************************************************)
EXTENDS Integers, Sequences, FiniteSets, TLC

VARIABLES policy, now, cache, access_order, warm, cold, nextId,
          last, latest, critical, touch, scen, locks, procs, twin

vars == <<policy, now, cache, access_order, warm, cold, nextId,
          last, latest, critical, touch, scen, locks, procs, twin>>

\* policy        the MigrationPolicy given to TieredMemory::new
\* now           the clock (Utc::now, datetime('now')), in ticks
\* cache         HotMemory.cache: key -> entry
\* access_order  HotMemory.access_order: keys, least recently used first
\* warm, cold    the rows of warm_memories and of cold_memories
\* nextId        the next identifier uuid::Uuid::new_v4 hands out
\* last          the last call and its result
\* latest        per key, the content of the latest remember since the last
\*               successful forget of the key ("none": no such remember)
\* critical      the keys whose entry was created by remember with priority
\*               Critical and not successfully forgotten since
\* touch         per key of Hot, the rank of its latest store or successful get
\* scen          the calls made so far, while they follow one of Scenarios
\* locks         the two RwLocks of HotMemory: writer, readers, poisoned
\* procs         per thread, the call it is in and its next statement
\* twin          the cache and access_order of a second HotMemory, which is
\*               given the same calls with other priorities

----------------------------------------------------------------------------
(* Bounds of the exploration *)

HotCap == 2
MaxIds == 3
MaxAccess == 2
MaxFail == 6
MaxLimit == 2

TicksPerDay == 2

Keys == {"a", "b", "c"}
Contents == {"v1", "v2"}
\* The caller of the facade remembers the keys of CallerKeys and recalls and
\* forgets those of RecallKeys; the other key only takes room in Hot.
CallerKeys == {"a", "b"}
RecallKeys == {"a"}
\* The instants the clock takes: the start, half a day past thirty days,
\* thirty-one days and sixty-two days later.
Instants == {0, 30 * TicksPerDay + TicksPerDay \div 2, 31 * TicksPerDay,
             62 * TicksPerDay}

\* The queries and limits the caller passes to search
Queries == {"V", "v2"}
Limits == 0..MaxLimit

\* The arguments the caller passes with each key: every content and both
\* kinds of priority for key "a", one content and one priority for the rest.
ContentsOf(k) == IF k = "a" THEN Contents ELSE {"v1"}
PrioritiesOf(k) == IF k = "a" THEN {"Critical", "Normal"} ELSE {"Normal"}

----------------------------------------------------------------------------
(* Data types *)

Priority == {"Critical", "High", "Normal", "Low"}

PriorityToString(p) ==
    CASE p = "Critical" -> "critical"
      [] p = "High" -> "high"
      [] p = "Normal" -> "normal"
      [] p = "Low" -> "low"

PriorityFromStr(s) ==
    CASE s = "critical" -> "Critical"
      [] s = "high" -> "High"
      [] s = "normal" -> "Normal"
      [] s = "low" -> "Low"
      [] OTHER -> "Normal"

NoSession == "None"

\* TieredMemoryEntry::new
NewEntry(key, content, priority, t, id) ==
    [id |-> id, key |-> key, content |-> content, tier |-> "Hot",
     priority |-> priority, timestamp |-> t, accessed_at |-> t,
     access_count |-> 1, session_id |-> NoSession, tags |-> <<>>]

\* MigrationPolicy::default
DefaultHotToWarmDays == 7
DefaultWarmToColdDays == 30

\* The policy the facade is built with: the default thresholds, and a
\* capacity that two keys exceed.
Policies ==
    {[hot_to_warm_days |-> DefaultHotToWarmDays,
      warm_to_cold_days |-> DefaultWarmToColdDays,
      max_hot_entries |-> 1]}

\* a policy with other thresholds
OtherPolicies ==
    {[hot_to_warm_days |-> 40, warm_to_cold_days |-> 90,
      max_hot_entries |-> 1]}

\* the capacities of a HotMemory built on its own
HotPolicies ==
    {[hot_to_warm_days |-> DefaultHotToWarmDays,
      warm_to_cold_days |-> DefaultWarmToColdDays,
      max_hot_entries |-> m] : m \in 0..HotCap}

\* the ages hard-wired in should_promote_to_warm and in the archival query
PromoteAgeDays == 7
ArchiveAgeDays == 30

Day(t) == t \div TicksPerDay

\* age > Duration::days(7)
ShouldPromoteToWarm(e, t) == (t - e.timestamp) > PromoteAgeDays * TicksPerDay

\* Character codes of the separator between date and time of day:
\* to_rfc3339 writes 'T', SQLite datetime() writes a space.
SepRfc3339 == 84
SepSqlDatetime == 32

\* "timestamp < datetime('now', '-30 days')": a comparison of TEXT values,
\* the stored RFC 3339 string against "YYYY-MM-DD HH:MM:SS".  The first ten
\* characters are the date; the eleventh is the separator.
SqlTimestampLess(ts, cutoff) ==
    \/ Day(ts) < Day(cutoff)
    \/ /\ Day(ts) = Day(cutoff)
       /\ SepRfc3339 < SepSqlDatetime

ArchivalCutoff(t) == t - ArchiveAgeDays * TicksPerDay

\* to_lowercase, on the strings of the model
Lower(s) == IF s = "V" THEN "v" ELSE s

Substrings(s) ==
    CASE s = "v1" -> {"", "v", "1", "v1"}
      [] s = "v2" -> {"", "v", "2", "v2"}
      [] OTHER -> {""}

\* e.content.to_lowercase().contains(&query_lower)
HotContains(content, query) == Lower(query) \in Substrings(Lower(content))

\* content LIKE '%query%': LIKE ignores the case of ASCII letters; the
\* queries of the model hold none of the wildcards % and _
LikeMatches(content, query) == Lower(query) \in Substrings(Lower(content))

Min(a, b) == IF a <= b THEN a ELSE b

\* the results a scan can give that stops after n of the elements of S: the
\* order of a HashMap's values and of a query without ORDER BY is not fixed
TakeOf(S, n) ==
    {q \in [1..Min(n, Cardinality(S)) -> S] :
        \A i, j \in DOMAIN q : i # j => q[i] # q[j]}

----------------------------------------------------------------------------
(* HotMemory: cache (key -> entry) and access_order (queue of keys) *)
\* the callers that use one HotMemory or one TieredMemory at the same time
Threads == {"t1", "t2"}

\* a caller with no call in progress
Idle == [op |-> "idle", pc |-> "idle", key |-> ""]

\* an RwLock nobody holds: its writer, its readers, and whether a thread
\* panicked while it held the write guard
FreeLock == [writer |-> "none", readers |-> {}, poisoned |-> FALSE]

\* HotMemory::new: the two locks of the hot tier
NoLocks == [cache |-> FreeLock, access_order |-> FreeLock]

\* a health check that looks at the map lock only
HotHealthCacheOnly(lk) == ~lk.cache.poisoned

\* HotMemory::health_check: cache.read().is_ok() && access_order.read().is_ok()
HotHealthCheck(lk) == ~lk.cache.poisoned /\ ~lk.access_order.poisoned


Restrict(f, S) == [x \in S |-> f[x]]

\* mutant: order.retain keeps every key
RetainKeepsAll(o, key) == o

Retain(o, key) == SelectSeq(o, LAMBDA k : k # key)

Hot(c, o) == [cache |-> c, order |-> o]

\* mutant: a hit does not move the key to the back of the queue
HotGetOrderNoMove(c, o, key) == o

\* HotMemory::get: the reordering happens on a hit only
HotGetOrder(c, o, key) ==
    IF key \in DOMAIN c THEN Append(Retain(o, key), key) ELSE o

\* mutant: the eviction spares Critical entries and takes the least recently
\* used key of another priority
EvictLoopSparesCritical(c, o, max) ==
    LET idx == {i \in 1..Len(o) :
                   o[i] \in DOMAIN c /\ c[o[i]].priority # "Critical"}
    IN  IF Cardinality(DOMAIN c) >= max /\ idx # {}
        THEN LET i == CHOOSE i \in idx : \A j \in idx : i <= j
             IN  [cache |-> [x \in DOMAIN c \ {o[i]} |-> c[x]],
                  order |-> SelectSeq(o, LAMBDA k : k # o[i])]
        ELSE [cache |-> c, order |-> o]

\* the loop "while cache.len() >= self.max_entries" of HotMemory::store
RECURSIVE EvictLoop(_, _, _)
EvictLoop(c, o, max) ==
    IF Cardinality(DOMAIN c) >= max
    THEN IF o # <<>>
         THEN EvictLoop(Restrict(c, DOMAIN c \ {Head(o)}), Tail(o), max)
         ELSE Hot(c, o)
    ELSE Hot(c, o)

\* HotMemory::store
HotStore(c, o, e, max) ==
    LET ev == EvictLoop(c, o, max)
    IN  Hot([k \in DOMAIN ev.cache \cup {e.key} |->
                IF k = e.key THEN e ELSE ev.cache[k]],
            Append(Retain(ev.order, e.key), e.key))

\* HotMemory::remove
HotRemove(c, o, key) ==
    Hot(Restrict(c, DOMAIN c \ {key}), Retain(o, key))

HotCount(c) == Cardinality(DOMAIN c)

\* HotMemory::search: filter, take(limit)
HotSearch(c, query, limit) ==
    TakeOf({c[k] : k \in {x \in DOMAIN c : HotContains(c[x].content, query)}},
           limit)

\* mutant: the selection looks at the age only
PromotionKeysOfAnyPriority(c, t) == {k \in DOMAIN c : ShouldPromoteToWarm(c[k], t)}

\* HotMemory::get_entries_for_promotion (as a set of keys)
PromotionKeys(c, t) ==
    {k \in DOMAIN c : ShouldPromoteToWarm(c[k], t) /\ c[k].priority # "Critical"}

----------------------------------------------------------------------------
(* Observation of the last call, and bookkeeping used by the properties *)

NoReport == [hot_to_warm_migrated |-> 0, warm_to_cold_migrated |-> 0,
             cold_to_warm_promoted |-> 0, hot_evicted |-> 0,
             total_hot |-> 0, total_warm |-> 0, total_cold |-> 0]

\* op: the call; after: the call before it when that one was a successful
\* remember/forget of the same key or a successful maintain at the same
\* instant; src: the tier a recall was served from.
\* limit, queried: the limit passed to search and the durable tiers it
\* queried; total: the number count returned.
\* seen: per key, the access_count of the entry the latest recall returned
\* since the last successful forget of the key (-1: none); it is recorded
\* in the behaviours that start with track set.
\* changed: the parts of the state the call changed; held: the tiers that
\* held the key before the call; prior: held and report of the call before it
\* when after is not "none".
NoHeld == [hot |-> FALSE, warm |-> FALSE, cold |-> 0]

NoPrior == [held |-> NoHeld, report |-> NoReport]

Obs(op, key, content, after, ok, src, resEntry, resFlag, report, changed) ==
    [op |-> op, key |-> key, content |-> content, after |-> after, ok |-> ok,
     src |-> src, resEntry |-> resEntry, resFlag |-> resFlag,
     report |-> report, changed |-> changed,
     limit |-> 0, queried |-> {}, total |-> 0, fault |-> 0, at |-> "",
     applied |-> 0, down |-> {}, panicked |-> FALSE, track |-> last.track,
     seen |-> IF ~last.track THEN last.seen
              ELSE IF op = "forget" /\ ok THEN [last.seen EXCEPT ![key] = -1]
              ELSE IF op = "recall" /\ ok /\ Len(resEntry) = 1
              THEN [last.seen EXCEPT ![key] = resEntry[1].access_count]
              ELSE last.seen,
     held |-> IF key = "" THEN NoHeld
              ELSE [hot |-> key \in DOMAIN cache,
                    warm |-> \E r \in warm : r.key = key,
                    cold |-> Cardinality({r \in cold : r.key = key})],
     prior |-> IF after = "none" THEN NoPrior
               ELSE [held |-> last.held, report |-> last.report]]

InitObs ==
    [op |-> "init", key |-> "", content |-> "", after |-> "none", ok |-> TRUE,
     src |-> "none", resEntry |-> <<>>, resFlag |-> FALSE, report |-> NoReport,
     changed |-> {}, limit |-> 0, queried |-> {}, total |-> 0, fault |-> 0,
     at |-> "", applied |-> 0, down |-> {}, panicked |-> FALSE, track |-> FALSE, seen |-> [k \in Keys |-> -1],
     held |-> NoHeld, prior |-> NoPrior]

\* rank of each key of Hot by the time of its latest store or successful get
\* (0: not in Hot; larger: more recent)
MaxRank(t) == CHOOSE m \in 0..Cardinality(Keys) + 1 :
                 /\ \A k \in Keys : t[k] <= m
                 /\ \E k \in Keys : t[k] = m \/ m = 0

Renorm(t, dom) ==
    [x \in Keys |->
        IF x \in dom /\ t[x] > 0
        THEN Cardinality({y \in dom : t[y] > 0 /\ t[y] <= t[x]})
        ELSE 0]

Stamp(t, key, dom) == Renorm([t EXCEPT ![key] = MaxRank(t) + 1], dom)

Off == << <<"off", "">> >>

\* Changed is used in the actions, where the variables are the state before
\* the call and the arguments the state after it.
Changed(c, o, w, cd) ==
    {x \in {"cache", "order", "warm", "cold"} :
        \/ x = "cache" /\ c # cache
        \/ x = "order" /\ o # access_order
        \/ x = "warm" /\ w # warm
        \/ x = "cold" /\ cd # cold}

IsPrefix(s, t) == Len(s) <= Len(t) /\ SubSeq(t, 1, Len(s)) = s

Scenarios ==
    { << <<"store", "a">>, <<"store", "b">>, <<"store", "c">> >>,
      << <<"store", "a">>, <<"store", "b">>, <<"get", "a">>, <<"store", "c">> >>,
      << <<"remember", "a">>, <<"remember", "b">>, <<"remember", "c">> >> }

ScenStep(s, op, key) ==
    IF s # Off /\ \E sc \in Scenarios : IsPrefix(Append(s, <<op, key>>), sc)
    THEN Append(s, <<op, key>>)
    ELSE Off

----------------------------------------------------------------------------
(* WarmMemory: table warm_memories, id PRIMARY KEY, key UNIQUE *)

WarmRow(e) ==
    [id |-> e.id, key |-> e.key, content |-> e.content,
     priority |-> PriorityToString(e.priority), timestamp |-> e.timestamp,
     accessed_at |-> e.accessed_at, access_count |-> e.access_count,
     session_id |-> e.session_id, tags |-> e.tags]

\* the row mapping shared by WarmMemory::get, get_all, get_entries_for_archival
WarmEntry(r) ==
    [id |-> r.id, key |-> r.key, content |-> r.content, tier |-> "Warm",
     priority |-> PriorityFromStr(r.priority), timestamp |-> r.timestamp,
     accessed_at |-> r.accessed_at, access_count |-> r.access_count,
     session_id |-> r.session_id, tags |-> r.tags]

\* a store whose row does not reach the table
WarmStoreLost(w, e) == w

\* mutant: the table has no UNIQUE constraint on key
WarmStoreKeyNotUnique(w, e) == {r \in w : r.id # e.id} \cup {WarmRow(e)}

\* WarmMemory::store: INSERT OR REPLACE removes the rows that conflict on
\* the primary key or on the unique key
WarmStore(w, e) ==
    {r \in w : r.id # e.id /\ r.key # e.key} \cup {WarmRow(e)}

\* mutant: the DELETE leaves the row in place
WarmDeleteKeepsRow(w, key) == w

\* WarmMemory::delete
WarmDelete(w, key) == {r \in w : r.key # key}

WarmKeys(w) == {r.key : r \in w}

\* mutant: the archival query selects no row
ArchivalKeysNone(w, t) == {}

\* WarmMemory::get_entries_for_archival (as a set of keys)
ArchivalKeys(w, t) ==
    {r.key : r \in {x \in w : SqlTimestampLess(x.timestamp, ArchivalCutoff(t))}}

WarmRowOf(w, key) == CHOOSE r \in w : r.key = key

\* WarmMemory::count
WarmCount(w) == Cardinality(w)

\* WarmMemory::search: WHERE content LIKE ? LIMIT ?
WarmSearch(w, query, limit) ==
    TakeOf({WarmEntry(r) : r \in {x \in w : LikeMatches(x.content, query)}},
           limit)

----------------------------------------------------------------------------
(* ColdMemory: table cold_memories, id PRIMARY KEY, key not unique *)

\* mutant: the archived row takes the archival time as its timestamp
ColdRowStampsArchival(e, t) ==
    [id |-> e.id, key |-> e.key, content |-> e.content,
     priority |-> PriorityToString(e.priority), timestamp |-> t,
     archived_at |-> t, session_id |-> e.session_id, tags |-> e.tags]

\* the row ColdMemory::archive writes
ColdRow(e, t) ==
    [id |-> e.id, key |-> e.key, content |-> e.content,
     priority |-> PriorityToString(e.priority), timestamp |-> e.timestamp,
     archived_at |-> t, session_id |-> e.session_id, tags |-> e.tags]

\* the row mapping of ColdMemory::get and search
ColdEntry(r) ==
    [id |-> r.id, key |-> r.key, content |-> r.content, tier |-> "Cold",
     priority |-> PriorityFromStr(r.priority), timestamp |-> r.timestamp,
     accessed_at |-> r.archived_at, access_count |-> 0,
     session_id |-> r.session_id, tags |-> r.tags]

\* ColdMemory::archive: INSERT OR REPLACE on the primary key
ColdArchive(c, e, t) == {r \in c : r.id # e.id} \cup {ColdRow(e, t)}

\* mutant: the DELETE removes one row only
ColdDeleteOneRow(c, key) ==
    IF \E r \in c : r.key = key
    THEN c \ {CHOOSE r \in c : r.key = key}
    ELSE c

\* ColdMemory::delete
ColdDelete(c, key) == {r \in c : r.key # key}

ColdKeys(c) == {r.key : r \in c}

ColdRowsOf(c, key) == {r \in c : r.key = key}

\* ColdMemory::count
ColdCount(c) == Cardinality(c)

\* ColdMemory::search: WHERE content LIKE ? LIMIT ?
ColdSearch(c, query, limit) ==
    TakeOf({ColdEntry(r) : r \in {x \in c : LikeMatches(x.content, query)}},
           limit)

----------------------------------------------------------------------------
(* TieredMemory facade *)

\* mutant: the update path keeps the old content
RememberEntryKeepsContent(c, key, content, priority, t, id) ==
    IF key \in DOMAIN c
    THEN [c[key] EXCEPT !.accessed_at = t, !.access_count = @ + 1]
    ELSE NewEntry(key, content, priority, t, id)

\* mutant: the update path takes the priority passed by the caller
RememberEntryTakesPriority(c, key, content, priority, t, id) ==
    IF key \in DOMAIN c
    THEN [c[key] EXCEPT !.content = content, !.priority = priority,
                        !.accessed_at = t, !.access_count = @ + 1]
    ELSE NewEntry(key, content, priority, t, id)

\* the entry TieredMemory::remember stores
RememberEntry(c, key, content, priority, t, id) ==
    IF key \in DOMAIN c
    THEN [c[key] EXCEPT !.content = content, !.accessed_at = t,
                        !.access_count = @ + 1]
    ELSE NewEntry(key, content, priority, t, id)

\* TieredMemory::remember on the hot tier: hot.get (twice on a hit), hot.store
RememberHot(c, o, key, content, priority, t, id, max) ==
    HotStore(c, HotGetOrder(c, o, key),
             RememberEntry(c, key, content, priority, t, id), max)

\* mutant: remember writes the entry through to Warm
RememberWarmWriteThrough(w, e) == WarmStore(w, e)

\* the Warm store after TieredMemory::remember, which calls only self.hot
RememberWarm(w, e) == w

Remember(key, content, priority) ==
    /\ key \in DOMAIN cache => cache[key].access_count < MaxAccess
    /\ key \notin DOMAIN cache => nextId <= MaxIds
    /\ LET h == RememberHot(cache, access_order, key, content, priority,
                            now, nextId, policy.max_hot_entries)
           w == RememberWarm(warm, RememberEntry(cache, key, content,
                                                 priority, now, nextId))
       IN  /\ cache' = h.cache
           /\ access_order' = h.order
           /\ warm' = w
           /\ touch' = Stamp(touch, key, DOMAIN h.cache)
           /\ last' = Obs("remember", key, content, "none", TRUE, "none",
                          <<>>, FALSE, NoReport,
                          Changed(h.cache, h.order, w, cold))
    /\ nextId' = IF key \in DOMAIN cache THEN nextId ELSE nextId + 1
    /\ latest' = [latest EXCEPT ![key] = content]
    /\ critical' = IF key \in DOMAIN cache THEN critical
                   ELSE IF priority = "Critical" THEN critical \cup {key}
                   ELSE critical \ {key}
    /\ scen' = ScenStep(scen, "remember", key)
    /\ UNCHANGED <<twin, policy, locks, procs, now, cold>>

\* mutant: the copy keeps the tier label of its source
PromotedKeepsTier(e) == e

\* the promoted copy of TieredMemory::recall
Promoted(e) == [e EXCEPT !.tier = "Hot"]

\* what the preceding call means for this one
AfterOf(op, key) ==
    IF last.ok /\ last.op = "remember" /\ op = "recall" /\ last.key = key
    THEN "remember"
    ELSE IF last.ok /\ last.op = "forget" /\ op = "recall" /\ last.key = key
    THEN "forget"
    ELSE IF last.ok /\ last.op = "maintain" /\ op = "maintain"
    THEN "maintain"
    ELSE "none"

RecallDone(key, h, src, ok, res, touched) ==
    /\ cache' = h.cache
    /\ access_order' = h.order
    /\ touch' = IF touched THEN Stamp(touch, key, DOMAIN h.cache) ELSE touch
    /\ scen' = ScenStep(scen, "recall", key)
    /\ last' = Obs("recall", key, "", AfterOf("recall", key), ok, src,
                   res, FALSE, NoReport, Changed(h.cache, h.order, warm, cold))
    /\ UNCHANGED <<twin, policy, locks, procs, now, warm, cold, nextId, latest, critical>>

\* a lookup that reports a query without rows as a failure
WarmGetNoRowsIsError(w, key) ==
    [ok |-> \E r \in w : r.key = key, rows |-> {r \in w : r.key = key}]

\* WarmMemory::get: the rows of the key (at most one, the key is unique); a
\* query that returns no rows is the success value None
WarmGet(w, key) == [ok |-> TRUE, rows |-> {r \in w : r.key = key}]

\* ColdMemory::get: query_row yields the first of the rows of the key, any of
\* them; a query that returns no rows is the success value None
ColdGet(cd, key) == [ok |-> TRUE, rows |-> ColdRowsOf(cd, key)]

RecallResult(h, src, ok, res, touched) ==
    [hot |-> h, src |-> src, ok |-> ok, res |-> res, touched |-> touched]

\* the outcomes of TieredMemory::recall on the tiers c, o, w, cd;
\* fail = 1: warm.get fails, fail = 2: cold.get fails
RecallOutcomes(c, o, w, cd, key, max, fail) ==
    IF key \in DOMAIN c
    THEN IF fail # 0 THEN {}
         ELSE {RecallResult(Hot(c, HotGetOrder(c, o, key)), "hot", TRUE,
                            <<c[key]>>, TRUE)}
    ELSE IF fail = 1 \/ ~WarmGet(w, key).ok
    THEN {RecallResult(Hot(c, o), "none", FALSE, <<>>, FALSE)}
    ELSE IF WarmGet(w, key).rows # {}
    THEN IF fail # 0 THEN {}
         ELSE {RecallResult(HotStore(c, o, Promoted(WarmEntry(r)), max),
                            "warm", TRUE, <<Promoted(WarmEntry(r))>>, TRUE) :
                  r \in WarmGet(w, key).rows}
    ELSE IF fail = 2 \/ ~ColdGet(cd, key).ok
    THEN {RecallResult(Hot(c, o), "none", FALSE, <<>>, FALSE)}
    ELSE IF ColdGet(cd, key).rows # {}
    THEN {RecallResult(HotStore(c, o, Promoted(ColdEntry(r)), max),
                       "cold", TRUE, <<Promoted(ColdEntry(r))>>, TRUE) :
             r \in ColdGet(cd, key).rows}
    ELSE {RecallResult(Hot(c, o), "none", TRUE, <<>>, FALSE)}

\* TieredMemory::recall
Recall(key, fail) ==
    \E r \in RecallOutcomes(cache, access_order, warm, cold, key,
                            policy.max_hot_entries, fail) :
        RecallDone(key, r.hot, r.src, r.ok, r.res, r.touched)

\* the tiers after TieredMemory::forget; fail = 1: warm.delete fails,
\* fail = 2: cold.delete fails
ForgetTiers(c, o, w, cd, key, fail) ==
    LET h == HotRemove(c, o, key)
    IN  [cache |-> h.cache, order |-> h.order,
         warm |-> IF fail = 1 THEN w ELSE WarmDelete(w, key),
         cold |-> IF fail \in {1, 2} THEN cd ELSE ColdDelete(cd, key)]

\* mutant: only the removal from Hot sets the result
ForgetDeletedHotOnly(c, w, cd, key) == key \in DOMAIN c

\* the value TieredMemory::forget returns: hot.remove found the key, or a
\* DELETE affected at least one row
ForgetDeleted(c, w, cd, key) ==
    \/ key \in DOMAIN c
    \/ Cardinality({r \in w : r.key = key}) > 0
    \/ Cardinality({r \in cd : r.key = key}) > 0

Forget(key, fail) ==
    LET s == ForgetTiers(cache, access_order, warm, cold, key, fail)
    IN  /\ cache' = s.cache
        /\ access_order' = s.order
        /\ warm' = s.warm
        /\ cold' = s.cold
        /\ touch' = Renorm(touch, DOMAIN s.cache)
        /\ latest' = IF fail = 0 THEN [latest EXCEPT ![key] = "none"] ELSE latest
        /\ critical' = IF fail = 0 THEN critical \ {key} ELSE critical
        /\ scen' = ScenStep(scen, "forget", key)
        /\ last' = [Obs("forget", key, "", "none", fail = 0, "none", <<>>,
                        fail = 0 /\ ForgetDeleted(cache, warm, cold, key),
                        NoReport, Changed(s.cache, s.order, s.warm, s.cold))
                       EXCEPT !.fault = fail]
        /\ UNCHANGED <<twin, policy, locks, procs, now, nextId>>

\* mutant: the results of a later tier are put in front
ExtendInFront(results, more) == more \o results

\* "results.extend(...)"
Extend(results, more) == results \o more

\* mutant: each tier is asked for the whole limit
SearchRemainingWholeLimit(limit, n) == limit

\* "limit - results.len()"
SearchRemaining(limit, n) == limit - n

\* mutant: a failing cold.search hands back what Hot and Warm have found
SearchColdKeepsPartial(cd, query, limit, sofar, fail) ==
    IF Len(sofar) < limit
    THEN IF fail = 2
         THEN {[ok |-> FALSE, res |-> sofar, asked |-> {"cold"}]}
         ELSE {[ok |-> TRUE, res |-> Extend(sofar, cs), asked |-> {"cold"}] :
                 cs \in ColdSearch(cd, query,
                                   SearchRemaining(limit, Len(sofar)))}
    ELSE {[ok |-> TRUE, res |-> sofar, asked |-> {}]}

\* TieredMemory::search from the cold step on: sofar holds the results of
\* Hot and Warm; fail = 2: cold.search fails
SearchCold(cd, query, limit, sofar, fail) ==
    IF Len(sofar) < limit
    THEN IF fail = 2
         THEN {[ok |-> FALSE, res |-> <<>>, asked |-> {"cold"}]}
         ELSE {[ok |-> TRUE, res |-> Extend(sofar, cs), asked |-> {"cold"}] :
                 cs \in ColdSearch(cd, query,
                                   SearchRemaining(limit, Len(sofar)))}
    ELSE {[ok |-> TRUE, res |-> sofar, asked |-> {}]}

\* TieredMemory::search from the warm step on: hs holds the results of Hot;
\* fail = 1: warm.search fails
SearchWarm(w, cd, query, limit, hs, fail) ==
    IF Len(hs) < limit
    THEN IF fail = 1
         THEN {[ok |-> FALSE, res |-> <<>>, asked |-> {"warm"}]}
         ELSE UNION {{[r EXCEPT !.asked = @ \cup {"warm"}] :
                        r \in SearchCold(cd, query, limit, Extend(hs, ws),
                                        fail)} :
                     ws \in WarmSearch(w, query,
                                       SearchRemaining(limit, Len(hs)))}
    ELSE SearchCold(cd, query, limit, hs, fail)

\* the outcomes of TieredMemory::search
SearchOutcomes(c, w, cd, query, limit, fail) ==
    UNION {SearchWarm(w, cd, query, limit, hs, fail) :
             hs \in HotSearch(c, query, limit)}

Search(query, limit, fail) ==
    \E r \in SearchOutcomes(cache, warm, cold, query, limit, fail) :
        /\ r.ok = (fail = 0)
        /\ last' = [Obs("search", "", query, "none", r.ok, "none", r.res,
                        FALSE, NoReport, {})
                       EXCEPT !.limit = limit, !.queried = r.asked]
        /\ scen' = ScenStep(scen, "search", "")
        /\ UNCHANGED <<twin, policy, locks, procs, now, cache, access_order, warm, cold, nextId,
                       latest, critical, touch>>

\* mutant: a key held by several tiers is counted once
TieredCountDistinctKeys(c, w, cd) ==
    Cardinality(DOMAIN c \cup WarmKeys(w) \cup ColdKeys(cd))

\* TieredMemory::count
TieredCount(c, w, cd) == HotCount(c) + WarmCount(w) + ColdCount(cd)

\* fail = 1: warm.count fails, fail = 2: cold.count fails
Count(fail) ==
    /\ last' = [Obs("count", "", "", "none", fail = 0, "none", <<>>, FALSE,
                    NoReport, {})
                   EXCEPT !.total = IF fail = 0
                                    THEN TieredCount(cache, warm, cold) ELSE 0]
    /\ scen' = ScenStep(scen, "count", "")
    /\ UNCHANGED <<twin, policy, locks, procs, now, cache, access_order, warm, cold, nextId,
                   latest, critical, touch>>

\* TieredMemory::health_check; fail = 1: the warm store does not answer,
\* fail = 2: the cold store does not answer
HealthCheck(fail) ==
    /\ last' = [Obs("health_check", "", "", "none", TRUE, "none", <<>>,
                    HotHealthCheck(locks) /\ fail = 0, NoReport, {})
                   EXCEPT !.fault = fail]
    /\ scen' = ScenStep(scen, "health_check", "")
    /\ UNCHANGED <<twin, policy, locks, procs, now, cache, access_order, warm, cold, nextId,
                   latest, critical, touch>>

\* One maintenance pass in progress: the tiers, the counters of the report,
\* the number of durable-store calls made so far, and whether one failed.
MState(c, o, w, cd, calls) ==
    [cache |-> c, order |-> o, warm |-> w, cold |-> cd,
     h2w |-> 0, w2c |-> 0, calls |-> calls, failed |-> FALSE,
     src |-> "none", at |-> ""]

\* a durable-store call that does not change the tiers (count, query)
ReadCall(st, fail) ==
    IF st.failed THEN st
    ELSE [st EXCEPT !.calls = @ + 1, !.failed = (fail = st.calls + 1)]

\* "for entry in &to_promote": warm.store, hot.remove, count
RECURSIVE PromoteLoop(_, _, _)
PromoteLoop(entries, st, fail) ==
    IF entries = <<>> \/ st.failed THEN st
    ELSE LET e == Head(entries)
             n == st.calls + 1
             h == HotRemove(st.cache, st.order, e.key)
         IN  IF fail = n
             THEN [st EXCEPT !.calls = n, !.failed = TRUE,
                             !.src = "hot", !.at = e.key]
             ELSE PromoteLoop(Tail(entries),
                     [st EXCEPT !.warm = WarmStore(@, [e EXCEPT !.tier = "Warm"]),
                                !.cache = h.cache,
                                !.order = h.order,
                                !.h2w = @ + 1,
                                !.calls = n],
                     fail)

\* "for entry in &to_archive": cold.archive, warm.delete, count
RECURSIVE ArchiveLoop(_, _, _, _)
ArchiveLoop(entries, st, t, fail) ==
    IF entries = <<>> \/ st.failed THEN st
    ELSE LET e == Head(entries)
             n == st.calls + 1
         IN  IF fail = n
             THEN [st EXCEPT !.calls = n, !.failed = TRUE,
                             !.src = "warm", !.at = e.key]
             ELSE IF fail = n + 1
             THEN [st EXCEPT !.cold = ColdArchive(@, e, t),
                             !.calls = n + 1, !.failed = TRUE,
                             !.src = "warm", !.at = e.key]
             ELSE ArchiveLoop(Tail(entries),
                     [st EXCEPT !.cold = ColdArchive(@, e, t),
                                !.warm = WarmDelete(@, e.key),
                                !.w2c = @ + 1,
                                !.calls = n + 1],
                     t, fail)

\* the keys of S in the order ord (iteration order of a HashMap or of a
\* query without ORDER BY)
OrderBy(S, ord) == SelectSeq(ord, LAMBDA k : k \in S)

\* a pass that undoes its migrations when a call fails
MaintainResultRollsBack(st0, st) ==
    IF st.failed
    THEN [st EXCEPT !.cache = st0.cache, !.order = st0.order,
                    !.warm = st0.warm, !.cold = st0.cold]
    ELSE st

\* what a pass that began in st0 and stopped in st leaves: "?" returns the
\* error at once, and nothing undoes the calls made before it
MaintainResult(st0, st) == st

\* TieredMemory::maintain; fail = n > 0: the n-th durable-store call fails
MaintainRun(c, o, w, cd, t, ord, fail) ==
    LET s0 == ReadCall(ReadCall(MState(c, o, w, cd, 0), fail), fail)
        hotKeys == OrderBy(PromotionKeys(c, t), ord)
        toPromote == [i \in 1..Len(hotKeys) |-> c[hotKeys[i]]]
        s1 == PromoteLoop(toPromote, s0, fail)
        s2 == ReadCall(s1, fail)
        warmKeys == OrderBy(ArchivalKeys(s1.warm, t), ord)
        toArchive == [i \in 1..Len(warmKeys) |->
                         WarmEntry(WarmRowOf(s1.warm, warmKeys[i]))]
        s3 == ArchiveLoop(toArchive, s2, t, fail)
    IN  MaintainResult(MState(c, o, w, cd, 0),
                       ReadCall(ReadCall(s3, fail), fail))

\* a report whose totals were read before the migrations of the pass
ReportOfInitialTotals(st) ==
    [hot_to_warm_migrated |-> st.h2w, warm_to_cold_migrated |-> st.w2c,
     cold_to_warm_promoted |-> 0, hot_evicted |-> 0,
     total_hot |-> HotCount(st.cache) + st.h2w,
     total_warm |-> Cardinality(st.warm) + st.w2c,
     total_cold |-> Cardinality(st.cold)]

ReportOf(st) ==
    [hot_to_warm_migrated |-> st.h2w, warm_to_cold_migrated |-> st.w2c,
     cold_to_warm_promoted |-> 0, hot_evicted |-> 0,
     total_hot |-> HotCount(st.cache), total_warm |-> Cardinality(st.warm),
     total_cold |-> Cardinality(st.cold)]

\* the orders in which the keys of S can be met
OrdersOf(S) ==
    {s \in [1..Cardinality(S) -> S] :
        \A i, j \in 1..Cardinality(S) : i # j => s[i] # s[j]}

Maintain(ord, fail) ==
    \E st \in {MaintainRun(cache, access_order, warm, cold, now, ord, fail)} :
        /\ st.failed = (fail # 0)
        /\ cache' = st.cache
        /\ access_order' = st.order
        /\ warm' = st.warm
        /\ cold' = st.cold
        /\ touch' = Renorm(touch, DOMAIN st.cache)
        /\ scen' = ScenStep(scen, "maintain", "")
        /\ last' = [Obs("maintain", "", "", AfterOf("maintain", ""),
                        ~st.failed, st.src, <<>>, FALSE,
                        IF st.failed THEN NoReport ELSE ReportOf(st),
                        Changed(st.cache, st.order, st.warm, st.cold))
                       EXCEPT !.fault = fail, !.at = st.at]
        /\ UNCHANGED <<twin, policy, locks, procs, now, nextId, latest, critical>>

\* the clock of the host advances
Tick(t) ==
    /\ t > now
    /\ now' = t
    /\ scen' = ScenStep(scen, "tick", "")
    /\ last' = Obs("tick", "", "", "none", TRUE, "none", <<>>, FALSE, NoReport,
                   {})
    /\ UNCHANGED <<twin, policy, locks, procs, cache, access_order, warm, cold, nextId, latest,
                   critical, touch>>

----------------------------------------------------------------------------
(* Initial state: TieredMemory::new on an empty directory *)

InitWith(P) ==
    /\ policy \in P
    /\ now = 0
    /\ cache = <<>>
    /\ access_order = <<>>
    /\ warm = {}
    /\ cold = {}
    /\ nextId = 1
    /\ last = InitObs
    /\ latest = [k \in Keys |-> "none"]
    /\ critical = {}
    /\ touch = [k \in Keys |-> 0]
    /\ scen = <<>>
    /\ locks = NoLocks
    /\ procs = [t \in Threads |-> Idle]
    /\ twin = Hot(<<>>, <<>>)

Init == InitWith(Policies)

InitOther == InitWith(OtherPolicies)

InitHot == InitWith(HotPolicies)

\* the same initial state, the results of recall being recorded from now on
InitHistory ==
    /\ policy \in Policies
    /\ now = 0
    /\ cache = <<>>
    /\ access_order = <<>>
    /\ warm = {}
    /\ cold = {}
    /\ nextId = 1
    /\ last = [InitObs EXCEPT !.track = TRUE]
    /\ latest = [k \in Keys |-> "none"]
    /\ critical = {}
    /\ touch = [k \in Keys |-> 0]
    /\ scen = <<>>
    /\ locks = NoLocks
    /\ procs = [t \in Threads |-> Idle]
    /\ twin = Hot(<<>>, <<>>)

----------------------------------------------------------------------------
(* Direct calls on HotMemory *)

DirectStore(key, content, priority) ==
    LET e == NewEntry(key, content, priority, now, nextId)
        h == HotStore(cache, access_order, e, policy.max_hot_entries)
    IN  /\ cache' = h.cache
        /\ access_order' = h.order
        /\ touch' = Stamp(touch, key, DOMAIN h.cache)
        /\ scen' = ScenStep(scen, "store", key)
        /\ last' = Obs("hot_store", key, content, "none", TRUE, "none",
                       <<>>, FALSE, NoReport,
                       Changed(h.cache, h.order, warm, cold))
        /\ UNCHANGED <<twin, policy, locks, procs, now, warm, cold, nextId, latest, critical>>

DirectGet(key) ==
    /\ access_order' = HotGetOrder(cache, access_order, key)
    /\ touch' = IF key \in DOMAIN cache
                THEN Stamp(touch, key, DOMAIN cache) ELSE touch
    /\ scen' = ScenStep(scen, "get", key)
    /\ last' = Obs("hot_get", key, "", "none", TRUE, "none",
                   IF key \in DOMAIN cache THEN <<cache[key]>> ELSE <<>>,
                   FALSE, NoReport,
                   Changed(cache, HotGetOrder(cache, access_order, key),
                           warm, cold))
    /\ UNCHANGED <<twin, policy, locks, procs, now, cache, warm, cold, nextId, latest, critical>>

DirectRemove(key) ==
    LET h == HotRemove(cache, access_order, key)
    IN  /\ cache' = h.cache
        /\ access_order' = h.order
        /\ touch' = Renorm(touch, DOMAIN h.cache)
        /\ scen' = ScenStep(scen, "remove", key)
        /\ last' = Obs("hot_remove", key, "", "none", TRUE, "none",
                       <<>>, key \in DOMAIN cache, NoReport,
                       Changed(h.cache, h.order, warm, cold))
        /\ UNCHANGED <<twin, policy, locks, procs, now, warm, cold, nextId, latest, critical>>

HotNext ==
    \/ \E k \in Keys : \E c \in ContentsOf(k), p \in PrioritiesOf(k) :
          DirectStore(k, c, p)
    \/ \E k \in Keys : DirectGet(k)
    \/ \E k \in Keys : DirectRemove(k)

----------------------------------------------------------------------------
(* The facade driven by one caller over durable stores that answer *)

Next ==
    \/ \E k \in CallerKeys : \E c \in ContentsOf(k), p \in PrioritiesOf(k) :
          Remember(k, c, p)
    \/ \E k \in RecallKeys : Recall(k, 0)
    \/ \E k \in RecallKeys : Forget(k, 0)
    \/ \E ord \in OrdersOf(CallerKeys) : Maintain(ord, 0)
    \/ \E t \in Instants : Tick(t)

Spec == Init /\ [][Next]_vars

SpecPolicy == InitOther /\ [][Next]_vars

SpecHistory == InitHistory /\ [][Next]_vars

(* A caller that remembers the keys Hot does not hold, and uses search,
   count and health_check besides recall, forget and maintain *)

RememberAbsent(key, content) ==
    /\ key \notin DOMAIN cache
    /\ Remember(key, content, "Normal")

Reads ==
    \/ \E q \in Queries, n \in Limits : Search(q, n, 0)
    \/ Count(0)
    \/ HealthCheck(0)

NextRead ==
    \/ \E k \in CallerKeys : \E c \in ContentsOf(k) : RememberAbsent(k, c)
    \/ \E k \in RecallKeys : Recall(k, 0)
    \/ \E k \in RecallKeys : Forget(k, 0)
    \/ \E ord \in OrdersOf(CallerKeys) : Maintain(ord, 0)
    \/ \E t \in Instants : Tick(t)
    \/ Reads

SpecRead == Init /\ [][NextRead]_vars

(* The same caller over durable stores whose calls can fail *)

Faults ==
    \/ \E k \in RecallKeys, f \in 1..2 : Recall(k, f)
    \/ \E k \in RecallKeys, f \in 1..2 : Forget(k, f)
    \/ \E f \in 1..MaxFail, ord \in OrdersOf(CallerKeys) : Maintain(ord, f)

NextFault ==
    \/ \E k \in CallerKeys : RememberAbsent(k, "v1")
    \/ \E k \in RecallKeys : Recall(k, 0)
    \/ \E k \in RecallKeys : Forget(k, 0)
    \/ \E ord \in OrdersOf(CallerKeys) : Maintain(ord, 0)
    \/ \E t \in Instants : Tick(t)
    \/ Faults

SpecFault == Init /\ [][NextFault]_vars

(* A HotMemory of any capacity up to HotCap used directly over all the
   keys, and through remember for the keys it does not hold, the clock
   standing still *)

RememberNew(key) ==
    /\ key \notin DOMAIN cache
    /\ Remember(key, "v1", "Normal")

NextHot ==
    \/ HotNext
    \/ \E k \in Keys : RememberNew(k)

SpecHot == InitHot /\ [][NextHot]_vars

----------------------------------------------------------------------------
(* Properties *)

Cap == policy.max_hot_entries

HotKeys == DOMAIN cache

Present(key) == key \in HotKeys \/ key \in WarmKeys(warm) \/ key \in ColdKeys(cold)

Age(ts) == now - ts

\* C1: for every capacity C >= 0, HotTier count() <= C after each call
C1_CapacityInvariant == HotCount(cache) <= Cap

\* the least recently stored or fetched key of Hot, by the ranks of touch
LruKeys == {k \in Keys : touch[k] = 1}

StoresAbsentKeyAtCapacity ==
    /\ last'.op \in {"hot_store", "remember"}
    /\ last'.key \notin HotKeys
    /\ Cap >= 1
    /\ HotCount(cache) = Cap

ScenarioDone(sc) == scen = sc /\ Cap = 2

\* C2: a store of an absent key into a full Hot (capacity >= 1) removes
\* exactly the key whose latest store or successful get is the oldest; with
\* capacity 2, store k1 k2 k3 leaves {k2, k3}, store k1 k2, get k1, store k3
\* leaves {k1, k3}, remember a b c leaves {b, c}
C2_LruEviction ==
    [][ /\ StoresAbsentKeyAtCapacity =>
              /\ Cardinality(HotKeys \ DOMAIN cache') = 1
              /\ HotKeys \ DOMAIN cache' = LruKeys
              /\ DOMAIN cache' = (HotKeys \ LruKeys) \cup {last'.key}
        /\ (ScenarioDone(<< <<"store", "a">>, <<"store", "b">>,
                            <<"store", "c">> >>))' =>
              DOMAIN cache' = {"b", "c"}
        /\ (ScenarioDone(<< <<"store", "a">>, <<"store", "b">>,
                            <<"get", "a">>, <<"store", "c">> >>))' =>
              DOMAIN cache' = {"a", "c"}
        /\ (ScenarioDone(<< <<"remember", "a">>, <<"remember", "b">>,
                            <<"remember", "c">> >>))' =>
              DOMAIN cache' = {"b", "c"}
      ]_vars

C2_Witness ==
    /\ ScenarioDone(<< <<"store", "a">>, <<"store", "b">>,
                       <<"get", "a">>, <<"store", "c">> >>)
    /\ HotKeys = {"a", "c"}
    /\ last.op = "hot_store"
    /\ "cache" \in last.changed

RecallAfter(op) == last.op = "recall" /\ last.after = op

Returned == last.resEntry[1]

\* C3: remember(k, v, p) followed immediately by recall(k) returns an entry
\* whose content is v, wherever k was before
C3_RoundTrip ==
    RecallAfter("remember") =>
        /\ last.ok
        /\ Len(last.resEntry) = 1
        /\ Returned.key = last.key
        /\ Returned.content = latest[last.key]

\* the key was only in Warm, with another content, when remember was called
C3_Witness ==
    /\ RecallAfter("remember")
    /\ ~last.prior.held.hot
    /\ last.prior.held.warm
    /\ \E r \in warm : r.key = last.key /\ r.content # Returned.content
    /\ Returned.content = latest[last.key]

\* C4: whenever recall(k) returns an entry, its content is that of the most
\* recent remember(k, v) since the last forget(k)
C4_ReadThrough ==
    (last.op = "recall" /\ last.ok /\ last.resEntry # <<>>) =>
        Returned.content = latest[last.key]

\* C5: after a successful forget(k), k is in no tier, whatever tiers held it,
\* and as long as no remember(k) follows, k stays absent and recall(k)
\* returns absent
C5_ForgetCompleteness ==
    /\ (last.op = "forget" /\ last.ok) => ~Present(last.key)
    /\ \A k \in Keys : latest[k] = "none" => ~Present(k)
    /\ (last.op = "recall" /\ latest[last.key] = "none") =>
          (last.ok /\ last.resEntry = <<>>)
    /\ RecallAfter("forget") => (last.ok /\ last.resEntry = <<>>)

\* the forget removed several Cold rows of the key
C5_Witness ==
    /\ RecallAfter("forget")
    /\ last.prior.held.cold >= 2
    /\ last.resEntry = <<>>

SameEntry(e, f) ==
    /\ e.id = f.id
    /\ e.key = f.key
    /\ e.content = f.content
    /\ e.priority = f.priority
    /\ e.timestamp = f.timestamp

PromotedFrom(src) == last.op = "recall" /\ last.ok /\ last.src = src

\* C6: after a recall served from Warm or from Cold, Hot holds the entry with
\* tier label Hot and the id, content, priority and timestamp of the source
\* copy, which is still present and unchanged
C6_Promotion ==
    /\ PromotedFrom("warm") =>
          /\ last.key \in HotKeys
          /\ cache[last.key].tier = "Hot"
          /\ cache[last.key] = Returned
          /\ \E r \in warm : r.key = last.key /\ SameEntry(WarmEntry(r), cache[last.key])
          /\ last.changed \subseteq {"cache", "order"}
    /\ PromotedFrom("cold") =>
          /\ last.key \in HotKeys
          /\ cache[last.key].tier = "Hot"
          /\ cache[last.key] = Returned
          /\ \E r \in cold : r.key = last.key /\ SameEntry(ColdEntry(r), cache[last.key])
          /\ last.changed \subseteq {"cache", "order"}

C6_Witness ==
    /\ PromotedFrom("cold")
    /\ last.held = [hot |-> FALSE, warm |-> FALSE, cold |-> 1]
    /\ cache[last.key].tier = "Hot"
    /\ \E r \in cold : r.key = last.key

OlderThanDays(ts, t, days) == (t - ts) > days * TicksPerDay

SameRow(r, q) ==
    /\ r.id = q.id
    /\ r.key = q.key
    /\ r.content = q.content
    /\ r.priority = q.priority
    /\ r.timestamp = q.timestamp

\* the entry e is held by Warm or by Cold
InColderTier(e, w, cd) ==
    \/ \E r \in w : SameEntry(WarmEntry(r), e)
    \/ \E r \in cd : SameEntry(ColdEntry(r), e)

\* C7: after a successful maintain() Hot holds no non-Critical entry older
\* than the hot-to-warm threshold, Warm holds no entry older than the
\* warm-to-cold threshold, every entry the pass removed from a tier is in a
\* colder tier with the same id, key, content, priority and timestamp, and an
\* entry older than both thresholds has moved from Hot to Cold
C7_MaintainPostcondition ==
    [][ (last'.op = "maintain" /\ last'.ok) =>
          /\ \A k \in DOMAIN cache' :
                ~ /\ cache'[k].priority # "Critical"
                  /\ OlderThanDays(cache'[k].timestamp, now',
                                   policy.hot_to_warm_days)
          /\ \A r \in warm' :
                ~OlderThanDays(r.timestamp, now', policy.warm_to_cold_days)
          /\ \A k \in DOMAIN cache \ DOMAIN cache' :
                InColderTier(cache[k], warm', cold')
          /\ \A r \in warm :
                (\A q \in warm' : ~SameRow(r, q)) =>
                    \E q \in cold' : SameEntry(ColdEntry(q), WarmEntry(r))
          /\ \A k \in DOMAIN cache :
                ( /\ cache[k].priority # "Critical"
                  /\ OlderThanDays(cache[k].timestamp, now,
                                   policy.hot_to_warm_days)
                  /\ OlderThanDays(cache[k].timestamp, now,
                                   policy.warm_to_cold_days) ) =>
                    /\ k \notin DOMAIN cache'
                    /\ \E q \in cold' : SameEntry(ColdEntry(q), cache[k])
      ]_vars

SecondMaintain == last.op = "maintain" /\ last.ok /\ last.after = "maintain"

\* C8: a maintain() that follows a maintain() with no call and no time in
\* between reports no migration and leaves the three tiers unchanged
C8_MaintainIdempotent ==
    SecondMaintain =>
        /\ last.report.hot_to_warm_migrated = 0
        /\ last.report.warm_to_cold_migrated = 0
        /\ last.changed = {}

\* the first of the two passes migrated from Hot to Warm and from Warm to Cold
C8_Witness ==
    /\ SecondMaintain
    /\ last.prior.report.hot_to_warm_migrated > 0
    /\ last.prior.report.warm_to_cold_migrated > 0
    /\ last.report.hot_to_warm_migrated = 0
    /\ last.report.total_cold > 0

\* C9: for every policy, get_entries_for_promotion returns exactly the
\* non-Critical Hot entries older than policy.hot_to_warm_days, and
\* get_entries_for_archival exactly the Warm entries older than
\* policy.warm_to_cold_days
C9_EligibilityFollowsPolicy ==
    /\ PromotionKeys(cache, now) =
          {k \in HotKeys :
              /\ cache[k].priority # "Critical"
              /\ OlderThanDays(cache[k].timestamp, now, policy.hot_to_warm_days)}
    /\ ArchivalKeys(warm, now) =
          {r.key : r \in {x \in warm :
              OlderThanDays(x.timestamp, now, policy.warm_to_cold_days)}}

\* C10: while no forget(k) is issued, recall(k) returns the entry that was
\* remembered with priority Critical
C10_CriticalKept ==
    (last.op = "recall" /\ last.ok /\ last.key \in critical) =>
        /\ last.resEntry # <<>>
        /\ Returned.priority = "Critical"

AllKeys == HotKeys \cup WarmKeys(warm) \cup ColdKeys(cold)

\* C11: maintain keeps the set of keys held by Hot, Warm and Cold together;
\* recall, search, count and health_check remove no key from it; no call
\* other than forget removes a key from it
C11_NoDeletionByAge ==
    [][ /\ last'.op = "maintain" => AllKeys' = AllKeys
        /\ last'.op \in {"recall", "search", "count", "health_check"} =>
              AllKeys \subseteq AllKeys'
        /\ last'.op # "forget" => AllKeys \subseteq AllKeys'
      ]_vars

\* the number of entries of the three tiers that match the query
MatchCount(query) ==
    Cardinality({k \in HotKeys : HotContains(cache[k].content, query)})
    + Cardinality({r \in warm : LikeMatches(r.content, query)})
    + Cardinality({r \in cold : LikeMatches(r.content, query)})

\* C12: search(query, N) returns at most N entries, for every N >= 0
C12_SearchBound ==
    (last.op = "search" /\ last.ok) => Len(last.resEntry) <= last.limit

\* more entries match than the limit allows, and a durable tier was asked
C12_Witness ==
    /\ last.op = "search" /\ last.ok
    /\ last.limit >= 1
    /\ MatchCount(last.content) > last.limit
    /\ Len(last.resEntry) = last.limit
    /\ last.queried # {}

\* the entries Hot holds plus the rows of Warm plus the rows of Cold
StoredCopies == Cardinality(HotKeys) + Cardinality(warm) + Cardinality(cold)

\* C13: count() is the sum of the three tiers' counts, without
\* deduplication; a recall that promotes a Warm or Cold entry into a Hot
\* tier below capacity makes it 1 larger although no key is new
C13_CountNotDeduplicated ==
    [][ /\ (last'.op = "count" /\ last'.ok) => last'.total = StoredCopies'
        /\ (/\ last'.op = "recall"
            /\ last'.src \in {"warm", "cold"}
            /\ HotCount(cache) < Cap) =>
              /\ StoredCopies' = StoredCopies + 1
              /\ AllKeys' = AllKeys
      ]_vars

\* count() after a promotion: a key held by Hot and by a durable tier is
\* counted twice
C13_Witness ==
    /\ last.op = "count" /\ last.ok
    /\ last.total = StoredCopies
    /\ last.total > Cardinality(AllKeys)
    /\ \E k \in HotKeys : k \in WarmKeys(warm) \/ k \in ColdKeys(cold)

\* id and timestamp of every copy held by a tier
Copies ==
    {[id |-> cache[k].id, timestamp |-> cache[k].timestamp] : k \in HotKeys}
    \cup {[id |-> r.id, timestamp |-> r.timestamp] : r \in warm}
    \cup {[id |-> r.id, timestamp |-> r.timestamp] : r \in cold}

\* C14: the timestamp of an entry, identified by its id, is the same in
\* every tier copy and never changes
C14_TimestampImmutable ==
    [][ \A x \in Copies \cup Copies', y \in Copies' :
           x.id = y.id => x.timestamp = y.timestamp ]_vars

\* an entry archived to Cold, promoted back and then updated by remember at
\* a later time: the Hot copy and the Cold row carry the same timestamp
C14_Witness ==
    \E k \in HotKeys : \E r \in cold :
        /\ r.id = cache[k].id
        /\ r.timestamp = cache[k].timestamp
        /\ r.archived_at > r.timestamp
        /\ cache[k].accessed_at > r.archived_at
        /\ cache[k].content # r.content
        /\ last.op = "remember" /\ last.key = k

\* C15: without a forget in between, the access_count of the entry a
\* recall(k) returns is never below that of the entry the recall(k) before
\* it returned
C15_AccessCountMonotonic ==
    [][ (/\ last'.op = "recall" /\ last'.ok
         /\ Len(last'.resEntry) = 1
         /\ last.seen[last'.key] # -1) =>
            last'.resEntry[1].access_count >= last.seen[last'.key] ]_vars

\* the access_count of the copy of the key that recall reads
ReadCountBefore(key) ==
    IF key \in HotKeys THEN cache[key].access_count
    ELSE IF key \in WarmKeys(warm) THEN WarmRowOf(warm, key).access_count
    ELSE 0

\* C16: a recall(k) that finds k increments the stored entry's access_count
\* and sets its accessed_at to the time of the read
C16_ReadsUpdateEntry ==
    [][ (last'.op = "recall" /\ last'.ok /\ Len(last'.resEntry) = 1) =>
           /\ last'.key \in DOMAIN cache'
           /\ cache'[last'.key].access_count = ReadCountBefore(last'.key) + 1
           /\ cache'[last'.key].accessed_at = now ]_vars

\* C17: remember leaves the contents of Warm and Cold unchanged, also when
\* the key already exists there
C17_RememberWritesOnlyHot ==
    [][ last'.op = "remember" => (warm' = warm /\ cold' = cold) ]_vars

\* a remember of a key that Warm holds and Hot does not, with another
\* content than the Warm row's
C17_Witness ==
    /\ last.op = "remember"
    /\ last.held.warm /\ ~last.held.hot
    /\ \E r \in warm : r.key = last.key /\ r.content # last.content
    /\ last.key \in HotKeys /\ cache[last.key].content = last.content

\* the key most recently used in Hot
MostRecent == access_order[Len(access_order)]

HeldBefore == last.held.hot \/ last.held.warm \/ last.held.cold >= 1

\* C19: forget(k) returns true exactly when Hot, Warm or Cold held k just
\* before the call; for a key held by none it returns false, without error,
\* and changes neither the tiers nor the recency order
C19_ForgetReturn ==
    last.op = "forget" =>
        /\ last.ok
        /\ last.resFlag <=> HeldBefore
        /\ ~HeldBefore => last.changed = {}

\* a forget of a key that only Cold held returns true
C19_Witness ==
    /\ last.op = "forget" /\ last.ok /\ last.resFlag
    /\ ~last.held.hot /\ ~last.held.warm /\ last.held.cold >= 1
    /\ "cold" \in last.changed

\* the positions of the entries of a tier in the results of the last search
FromTier(tier) == {i \in DOMAIN last.resEntry : last.resEntry[i].tier = tier}

HotMatches(query) ==
    {cache[k] : k \in {x \in HotKeys : HotContains(cache[x].content, query)}}

WarmMatches(query) ==
    {WarmEntry(r) : r \in {x \in warm : LikeMatches(x.content, query)}}

ColdMatches(query) ==
    {ColdEntry(r) : r \in {x \in cold : LikeMatches(x.content, query)}}

\* C20: search returns Hot matches, then Warm matches, then Cold matches;
\* Warm is asked only when Hot gave fewer than limit, Cold only when Hot and
\* Warm together gave fewer than limit; nothing is deduplicated across tiers
C20_SearchOrder ==
    (last.op = "search" /\ last.ok) =>
        LET res == last.resEntry
            q == last.content
            nh == Cardinality(FromTier("Hot"))
            nw == Cardinality(FromTier("Warm"))
            nc == Cardinality(FromTier("Cold"))
        IN  /\ \A i \in FromTier("Hot"), j \in FromTier("Warm") : i < j
            /\ \A i \in FromTier("Warm"), j \in FromTier("Cold") : i < j
            /\ \A i \in FromTier("Hot"), j \in FromTier("Cold") : i < j
            /\ \A i \in FromTier("Hot") : res[i] \in HotMatches(q)
            /\ \A i \in FromTier("Warm") : res[i] \in WarmMatches(q)
            /\ \A i \in FromTier("Cold") : res[i] \in ColdMatches(q)
            /\ \A i, j \in DOMAIN res : i # j => res[i] # res[j]
            /\ nh = Min(last.limit, Cardinality(HotMatches(q)))
            /\ nw = Min(last.limit - nh, Cardinality(WarmMatches(q)))
            /\ nc = Min(last.limit - nh - nw, Cardinality(ColdMatches(q)))
            /\ "warm" \in last.queried <=> nh < last.limit
            /\ "cold" \in last.queried <=> nh + nw < last.limit

\* a key promoted from Warm appears twice: the Hot copy, then the Warm row
C20_Witness ==
    /\ last.op = "search" /\ last.ok
    /\ Len(last.resEntry) = 2
    /\ last.resEntry[1].tier = "Hot" /\ last.resEntry[2].tier = "Warm"
    /\ last.resEntry[1].key = last.resEntry[2].key
    /\ last.resEntry[1].id = last.resEntry[2].id

\* C21: the report of a successful maintain() describes the pass:
\* hot_to_warm_migrated is the number of keys the pass removed from Hot,
\* warm_to_cold_migrated the number of keys the pass deleted from Warm (of
\* those Warm held before the pass or received from Hot during it), the three
\* totals are the counts of the tiers at the end of the pass, and
\* cold_to_warm_promoted and hot_evicted are 0
C21_ReportExact ==
    [][ (last'.op = "maintain" /\ last'.ok /\ now' = now) =>
          /\ last'.report.hot_to_warm_migrated =
                Cardinality(DOMAIN cache \ DOMAIN cache')
          /\ last'.report.warm_to_cold_migrated =
                Cardinality((WarmKeys(warm) \cup (DOMAIN cache \ DOMAIN cache'))
                                \ WarmKeys(warm'))
          /\ last'.report.total_hot = Cardinality(DOMAIN cache')
          /\ last'.report.total_warm = Cardinality(warm')
          /\ last'.report.total_cold = Cardinality(cold')
          /\ last'.report.cold_to_warm_promoted = 0
          /\ last'.report.hot_evicted = 0
      ]_vars

\* a pass that moved an entry out of Hot and an entry out of Warm into a Cold
\* tier that already held a row
C21_Witness ==
    /\ last.op = "maintain"
    /\ last.ok
    /\ last.report.hot_to_warm_migrated > 0
    /\ last.report.warm_to_cold_migrated > 0
    /\ last.report.total_hot = 0
    /\ last.report.total_cold > 1

\* C22: a key that no tier holds is not an error: recall of a key absent from
\* Hot, Warm and Cold succeeds, returns absent and changes neither the three
\* tiers nor the recency order
C22_NotFoundIsNotAnError ==
    (last.op = "recall" /\ ~HeldBefore) =>
        /\ last.ok
        /\ last.resEntry = <<>>
        /\ last.changed = {}

\* a recall of a key that was forgotten, while another key is still stored
C22_Witness ==
    /\ last.op = "recall"
    /\ ~HeldBefore
    /\ last.ok
    /\ last.resEntry = <<>>
    /\ last.after = "forget"
    /\ AllKeys # {}

\* C28: a store of an entry whose key Hot already holds replaces that entry
\* only: Hot holds the same keys after the call as before it, at every number
\* of entries up to the capacity
C28_UpdateEvictsNothing ==
    [][ (last'.op = "hot_store" /\ last'.key \in DOMAIN cache) =>
            DOMAIN cache' = DOMAIN cache ]_vars

(* The blocking wrappers of TieredMemory *)

\* TieredMemory::blocking_remember on the hot tier
BlockingRememberHot(c, o, key, content, priority, t, id, max) ==
    IF key \in DOMAIN c
    THEN \* hot.get(key).is_some(), hot.get(key).unwrap(), hot.store(entry)
         HotStore(c, HotGetOrder(c, HotGetOrder(c, o, key), key),
                  [c[key] EXCEPT !.content = content, !.accessed_at = t,
                                 !.access_count = @ + 1],
                  max)
    ELSE HotStore(c, HotGetOrder(c, o, key),
                  NewEntry(key, content, priority, t, id), max)

\* the outcomes of TieredMemory::blocking_recall; fail = 1: warm.get fails,
\* fail = 2: cold.get fails
BlockingRecallOutcomes(c, o, w, cd, key, max, fail) ==
    IF key \in DOMAIN c
    THEN IF fail # 0 THEN {}
         ELSE {[hot |-> Hot(c, HotGetOrder(c, o, key)), src |-> "hot",
                ok |-> TRUE, res |-> <<c[key]>>, touched |-> TRUE]}
    ELSE IF fail = 1 \/ ~WarmGet(w, key).ok
    THEN {[hot |-> Hot(c, o), src |-> "none", ok |-> FALSE, res |-> <<>>,
           touched |-> FALSE]}
    ELSE IF WarmGet(w, key).rows # {}
    THEN IF fail # 0 THEN {}
         ELSE {[hot |-> HotStore(c, o, [WarmEntry(r) EXCEPT !.tier = "Hot"],
                                 max),
                src |-> "warm", ok |-> TRUE,
                res |-> <<[WarmEntry(r) EXCEPT !.tier = "Hot"]>>,
                touched |-> TRUE] : r \in WarmGet(w, key).rows}
    ELSE IF fail = 2 \/ ~ColdGet(cd, key).ok
    THEN {[hot |-> Hot(c, o), src |-> "none", ok |-> FALSE, res |-> <<>>,
           touched |-> FALSE]}
    ELSE IF ColdGet(cd, key).rows # {}
    THEN {[hot |-> HotStore(c, o, [ColdEntry(r) EXCEPT !.tier = "Hot"], max),
           src |-> "cold", ok |-> TRUE,
           res |-> <<[ColdEntry(r) EXCEPT !.tier = "Hot"]>>,
           touched |-> TRUE] : r \in ColdGet(cd, key).rows}
    ELSE {[hot |-> Hot(c, o), src |-> "none", ok |-> TRUE, res |-> <<>>,
           touched |-> FALSE]}

\* the outcomes of TieredMemory::blocking_search; fail = 1: warm.search
\* fails, fail = 2: cold.search fails
BlockingSearchOutcomes(c, w, cd, query, limit, fail) ==
    UNION {
        IF Len(hs) >= limit THEN {[ok |-> TRUE, res |-> hs]}
        ELSE IF fail = 1 THEN {[ok |-> FALSE, res |-> <<>>]}
        ELSE UNION {
            IF Len(hs \o ws) >= limit THEN {[ok |-> TRUE, res |-> hs \o ws]}
            ELSE IF fail = 2 THEN {[ok |-> FALSE, res |-> <<>>]}
            ELSE {[ok |-> TRUE, res |-> (hs \o ws) \o cs] :
                    cs \in ColdSearch(cd, query, limit - Len(hs \o ws))} :
            ws \in WarmSearch(w, query, limit - Len(hs))} :
        hs \in HotSearch(c, query, limit)}

\* a blocking_forget that returns after the Warm deletion
BlockingForgetSkipsCold(c, o, w, cd, key, fail) ==
    [cache |-> HotRemove(c, o, key).cache, order |-> HotRemove(c, o, key).order,
     warm |-> IF fail = 1 THEN w ELSE WarmDelete(w, key),
     cold |-> cd,
     ok |-> fail = 0,
     deleted |-> fail = 0 /\ (key \in DOMAIN c \/ \E r \in w : r.key = key)]

\* TieredMemory::blocking_forget: the tiers it leaves and the value it
\* returns; fail = 1: warm.delete fails, fail = 2: cold.delete fails
BlockingForget(c, o, w, cd, key, fail) ==
    [cache |-> HotRemove(c, o, key).cache, order |-> HotRemove(c, o, key).order,
     warm |-> IF fail = 1 THEN w ELSE WarmDelete(w, key),
     cold |-> IF fail # 0 THEN cd ELSE ColdDelete(cd, key),
     ok |-> fail = 0,
     deleted |-> /\ fail = 0
                 /\ \/ key \in DOMAIN c
                    \/ \E r \in w : r.key = key
                    \/ \E r \in cd : r.key = key]

\* what TieredMemory::forget leaves and returns, in the same form
AsyncForget(c, o, w, cd, key, fail) ==
    [cache |-> ForgetTiers(c, o, w, cd, key, fail).cache,
     order |-> ForgetTiers(c, o, w, cd, key, fail).order,
     warm |-> ForgetTiers(c, o, w, cd, key, fail).warm,
     cold |-> ForgetTiers(c, o, w, cd, key, fail).cold,
     ok |-> fail = 0,
     deleted |-> fail = 0 /\ ForgetDeleted(c, w, cd, key)]

\* TieredMemory::blocking_remember
CallBlockingRemember(key, content, priority) ==
    /\ key \in DOMAIN cache => cache[key].access_count < MaxAccess
    /\ key \notin DOMAIN cache => nextId <= MaxIds
    /\ LET h == BlockingRememberHot(cache, access_order, key, content,
                                    priority, now, nextId,
                                    policy.max_hot_entries)
       IN  /\ cache' = h.cache
           /\ access_order' = h.order
           /\ touch' = Stamp(touch, key, DOMAIN h.cache)
           /\ last' = Obs("blocking_remember", key, content, "none", TRUE,
                          "none", <<>>, FALSE, NoReport,
                          Changed(h.cache, h.order, warm, cold))
    /\ nextId' = IF key \in DOMAIN cache THEN nextId ELSE nextId + 1
    /\ latest' = [latest EXCEPT ![key] = content]
    /\ critical' = IF key \in DOMAIN cache THEN critical
                   ELSE IF priority = "Critical" THEN critical \cup {key}
                   ELSE critical \ {key}
    /\ scen' = ScenStep(scen, "blocking_remember", key)
    /\ UNCHANGED <<twin, policy, locks, procs, now, warm, cold>>

\* TieredMemory::blocking_recall
CallBlockingRecall(key, fail) ==
    \E r \in BlockingRecallOutcomes(cache, access_order, warm, cold, key,
                                    policy.max_hot_entries, fail) :
        /\ cache' = r.hot.cache
        /\ access_order' = r.hot.order
        /\ touch' = IF r.touched THEN Stamp(touch, key, DOMAIN r.hot.cache)
                    ELSE touch
        /\ scen' = ScenStep(scen, "blocking_recall", key)
        /\ last' = Obs("blocking_recall", key, "", "none", r.ok, r.src, r.res,
                       FALSE, NoReport,
                       Changed(r.hot.cache, r.hot.order, warm, cold))
        /\ UNCHANGED <<twin, policy, locks, procs, now, warm, cold, nextId, latest, critical>>

\* TieredMemory::blocking_search
CallBlockingSearch(query, limit, fail) ==
    \E r \in BlockingSearchOutcomes(cache, warm, cold, query, limit, fail) :
        /\ r.ok = (fail = 0)
        /\ last' = [Obs("blocking_search", "", query, "none", r.ok, "none",
                        r.res, FALSE, NoReport, {})
                       EXCEPT !.limit = limit]
        /\ scen' = ScenStep(scen, "blocking_search", "")
        /\ UNCHANGED <<twin, policy, locks, procs, now, cache, access_order, warm, cold, nextId,
                       latest, critical, touch>>

\* TieredMemory::blocking_forget
CallBlockingForget(key, fail) ==
    LET s == BlockingForget(cache, access_order, warm, cold, key, fail)
    IN  /\ cache' = s.cache
        /\ access_order' = s.order
        /\ warm' = s.warm
        /\ cold' = s.cold
        /\ touch' = Renorm(touch, DOMAIN s.cache)
        /\ latest' = IF s.ok THEN [latest EXCEPT ![key] = "none"] ELSE latest
        /\ critical' = IF s.ok THEN critical \ {key} ELSE critical
        /\ scen' = ScenStep(scen, "blocking_forget", key)
        /\ last' = Obs("blocking_forget", key, "", "none", s.ok, "none",
                       <<>>, s.deleted, NoReport,
                       Changed(s.cache, s.order, s.warm, s.cold))
        /\ UNCHANGED <<twin, policy, locks, procs, now, nextId>>

\* the blocking wrappers called by one thread, with maintenance and the clock
NextBlocking ==
    \/ \E k \in CallerKeys : CallBlockingRemember(k, "v1", "Normal")
    \/ \E k \in RecallKeys : CallBlockingRecall(k, 0)
    \/ \E k \in RecallKeys : CallBlockingForget(k, 0)
    \/ \E q \in Queries : CallBlockingSearch(q, MaxLimit, 0)
    \/ \E ord \in OrdersOf(CallerKeys) : Maintain(ord, 0)
    \/ \E t \in Instants : Tick(t)

SpecBlocking == Init /\ [][NextBlocking]_vars

\* C27: from every state and for every argument, blocking_remember,
\* blocking_recall, blocking_search and blocking_forget return the same
\* result and leave the same Hot, Warm, Cold and recency order as remember,
\* recall, search and forget, also when a durable-store call fails
C27_BlockingEquivalent ==
    /\ \A k \in Keys, v \in Contents, p \in Priority :
          BlockingRememberHot(cache, access_order, k, v, p, now, nextId,
                              policy.max_hot_entries)
            = RememberHot(cache, access_order, k, v, p, now, nextId,
                          policy.max_hot_entries)
    /\ \A k \in Keys, f \in 0..2 :
          /\ BlockingRecallOutcomes(cache, access_order, warm, cold, k,
                                    policy.max_hot_entries, f)
               = RecallOutcomes(cache, access_order, warm, cold, k,
                                policy.max_hot_entries, f)
          /\ BlockingForget(cache, access_order, warm, cold, k, f)
               = AsyncForget(cache, access_order, warm, cold, k, f)
    /\ \A q \in Queries, n \in Limits, f \in 0..2 :
          BlockingSearchOutcomes(cache, warm, cold, q, n, f)
            = {[ok |-> r.ok, res |-> r.res] :
                 r \in SearchOutcomes(cache, warm, cold, q, n, f)}

\* blocking_recall has promoted a Cold row into Hot and evicted another key
C27_Witness ==
    /\ last.op = "blocking_recall"
    /\ last.ok
    /\ last.src = "cold"
    /\ "cache" \in last.changed
    /\ Len(access_order) = Cap
    /\ AllKeys \ HotKeys # {}

\* C23: a maintain() in which a durable-store call fails returns the error
\* and no report; it undoes nothing: every entry it took out of Hot is in Warm
\* or Cold, every row it took out of Warm is in Cold (or replaced by the
\* promoted copy of its key), and when the failure came in the archival step
\* all promotions are applied; it migrates nothing further: the entries left
\* in Hot are unchanged, a failed promotion leaves Cold and the keys of Warm
\* as they were, and no Warm row other than the failing one has a new Cold
\* copy; the entry whose migration failed is still in its source tier
C23_MaintainFailure ==
    [][ (last'.op = "maintain" /\ last'.fault # 0 /\ now' = now) =>
          /\ ~last'.ok
          /\ last'.report = NoReport
          /\ \A k \in DOMAIN cache \ DOMAIN cache' :
                InColderTier(cache[k], warm', cold')
          /\ \A r \in warm :
                (\A q \in warm' : ~SameRow(r, q)) =>
                    \/ \E q \in cold' : SameEntry(ColdEntry(q), WarmEntry(r))
                    \/ r.key \in DOMAIN cache \ DOMAIN cache'
          /\ last'.src = "warm" =>
                PromotionKeys(cache, now) \cap DOMAIN cache' = {}
          /\ \A k \in DOMAIN cache' : k \in DOMAIN cache /\ cache'[k] = cache[k]
          /\ last'.src = "hot" =>
                /\ cold' = cold
                /\ WarmKeys(warm) \subseteq WarmKeys(warm')
                /\ last'.at \in DOMAIN cache'
          /\ last'.src = "warm" =>
                /\ last'.at \in WarmKeys(warm')
                /\ \A r \in warm' :
                      r.key # last'.at =>
                          {q \in cold' : q.id = r.id} = {q \in cold : q.id = r.id}
      ]_vars

\* a pass that promoted an entry, archived it and failed to delete it from
\* Warm: the entry is in Warm and in Cold
C23_Witness ==
    /\ last.op = "maintain"
    /\ ~last.ok
    /\ last.src = "warm"
    /\ "cache" \in last.changed
    /\ last.at \in WarmKeys(warm)
    /\ last.at \in ColdKeys(cold)

\* C24: forget(k) attempts the deletion on each tier whatever happened on the
\* others: after a forget(k) whose Warm deletion failed, Cold holds no row of k
C24_ForgetIndependent ==
    (last.op = "forget" /\ last.fault = 1) => ColdRowsOf(cold, last.key) = {}

-----------------------------------------------------------------------------
(* A HotMemory whose locks can be poisoned: a thread that panics while it
   holds the write guard of an RwLock leaves the lock poisoned, and every
   later read() or write() on it returns Err *)

\* a thread panics while it holds the write guard of the lock l
Poison(l) ==
    /\ ~locks[l].poisoned
    /\ locks' = [locks EXCEPT ![l].poisoned = TRUE]
    /\ last' = Obs("panic", "", "", "none", FALSE, "none", <<>>, FALSE,
                   NoReport, {})
    /\ scen' = ScenStep(scen, "panic", "")
    /\ UNCHANGED <<twin, policy, procs, now, cache, access_order, warm, cold,
                   nextId, latest, critical, touch>>

\* "self.cache.write().unwrap()" then "self.access_order.write().unwrap()" on
\* a poisoned lock: the caller panics; when only access_order is poisoned it
\* panics holding the write guard of cache, which poisons cache too
UnwrapPanics(op, key) ==
    /\ locks' = [locks EXCEPT !.cache.poisoned = TRUE]
    /\ last' = [Obs(op, key, "", "none", FALSE, "none", <<>>, FALSE,
                    NoReport, {})
                   EXCEPT !.panicked = TRUE]
    /\ scen' = ScenStep(scen, "panic", key)
    /\ UNCHANGED <<twin, policy, procs, now, cache, access_order, warm, cold,
                   nextId, latest, critical, touch>>

\* HotMemory::store, the locks being healthy or poisoned
StoreCall(key, content, priority) ==
    IF ~locks.cache.poisoned /\ ~locks.access_order.poisoned
    THEN DirectStore(key, content, priority)
    ELSE UnwrapPanics("hot_store", key)

\* HotMemory::remove, the locks being healthy or poisoned
RemoveCall(key) ==
    IF ~locks.cache.poisoned /\ ~locks.access_order.poisoned
    THEN DirectRemove(key)
    ELSE UnwrapPanics("hot_remove", key)

\* HotMemory::get, the locks being healthy or poisoned: "cache.write().ok()?"
\* gives None on a poisoned map lock; "if let Ok(mut order)" skips the move
\* to the back on a poisoned order lock
GetCall(key) ==
    IF ~locks.cache.poisoned /\ ~locks.access_order.poisoned
    THEN DirectGet(key)
    ELSE /\ last' = Obs("hot_get", key, "", "none", TRUE, "none",
                        IF ~locks.cache.poisoned /\ key \in DOMAIN cache
                        THEN <<cache[key]>> ELSE <<>>,
                        FALSE, NoReport, {})
         /\ scen' = ScenStep(scen, "get", key)
         /\ UNCHANGED <<twin, policy, locks, procs, now, cache, access_order, warm,
                        cold, nextId, latest, critical, touch>>

\* HotMemory::health_check
HotHealthCheckCall ==
    /\ last' = Obs("hot_health_check", "", "", "none", TRUE, "none", <<>>,
                   HotHealthCheck(locks), NoReport, {})
    /\ scen' = ScenStep(scen, "health_check", "")
    /\ UNCHANGED <<twin, policy, locks, procs, now, cache, access_order, warm, cold,
                   nextId, latest, critical, touch>>

NextPoison ==
    \/ \E k \in CallerKeys : StoreCall(k, "v1", "Normal")
    \/ \E k \in CallerKeys : RemoveCall(k)
    \/ \E k \in CallerKeys : GetCall(k)
    \/ HotHealthCheckCall
    \/ \E f \in 0..2 : HealthCheck(f)
    \/ \E l \in {"cache", "access_order"} : Poison(l)

SpecPoison == InitHot /\ [][NextPoison]_vars

\* C25: the facade health_check never fails and returns the AND of the health
\* checks of Hot, Warm and Cold; once a lock of the hot tier is poisoned,
\* HotMemory::health_check and the facade health_check return false, and
\* store and remove panic instead of returning a value
C25_HealthCheck ==
    /\ last.op = "health_check" =>
          /\ last.ok
          /\ ~last.panicked
          /\ last.resFlag <=>
                /\ ~locks.cache.poisoned /\ ~locks.access_order.poisoned
                /\ last.fault # 1
                /\ last.fault # 2
    /\ (last.op = "hot_health_check"
            /\ (locks.cache.poisoned \/ locks.access_order.poisoned)) =>
          (last.ok /\ ~last.panicked /\ ~last.resFlag)
    /\ (last.op \in {"hot_store", "hot_remove"}
            /\ (locks.cache.poisoned \/ locks.access_order.poisoned)) =>
          (last.panicked /\ ~last.ok)

\* the facade health_check has answered false over healthy durable stores,
\* the recency-order lock alone having been poisoned while Hot held an entry
C25_Witness ==
    /\ last.op = "health_check"
    /\ last.fault = 0
    /\ ~last.resFlag
    /\ locks.access_order.poisoned
    /\ ~locks.cache.poisoned
    /\ cache # <<>>

-----------------------------------------------------------------------------
(* HotMemory used by several threads at once, statement by statement: each
   operation takes the write guard of cache, then the write guard of
   access_order, and keeps both to its end *)

\* what the steps of HotMemory leave alone
otherVars ==
    <<policy, now, warm, cold, nextId, last, latest, critical, touch, scen,
      twin>>

\* the operations of HotMemory that only read the map
ReadOps ==
    {"get_all", "get_entries_for_promotion", "count", "search", "health_check"}

\* mutant: health_check asks for the recency-order lock first
FirstLockOrderInHealthCheck(op) ==
    IF op = "health_check" THEN "lock_order_read" ELSE "lock_cache"

\* the lock an operation asks for first: self.cache in all of them
FirstLock(op) == "lock_cache"

\* a call of HotMemory in progress: its next statement, the key it works on,
\* whether it has written yet, and the key popped by the eviction loop
HotCall(op, key) ==
    [op |-> op, key |-> key, pc |-> FirstLock(op), dirty |-> FALSE,
     oldest |-> ""]

\* a thread calls an operation of HotMemory
Begin(t, op, key) ==
    /\ procs[t].pc = "idle"
    /\ procs' = [procs EXCEPT ![t] = HotCall(op, key)]
    /\ UNCHANGED <<otherVars, cache, access_order, locks>>

\* "let mut cache = self.cache.write()": waits until nobody holds the lock
LockCache(t) ==
    /\ procs[t].pc = "lock_cache"
    /\ procs[t].op \in {"get", "store", "remove"}
    /\ locks.cache.writer = "none"
    /\ locks.cache.readers = {}
    /\ locks' = [locks EXCEPT !.cache.writer = t]
    /\ procs' = [procs EXCEPT ![t].pc =
                    IF procs[t].op = "get" THEN "lookup" ELSE "lock_order"]
    /\ UNCHANGED <<otherVars, cache, access_order>>

\* "self.cache.read()" of get_all, get_entries_for_promotion, count, search
\* and health_check: waits until no writer holds the lock; health_check
\* goes on to the recency-order lock with the guard still alive
LockCacheRead(t) ==
    /\ procs[t].pc = "lock_cache"
    /\ procs[t].op \in ReadOps
    /\ locks.cache.writer = "none"
    /\ locks' = [locks EXCEPT !.cache.readers = @ \cup {t}]
    /\ procs' = [procs EXCEPT ![t].pc =
                    IF procs[t].op = "health_check"
                       /\ t \notin locks.access_order.readers
                    THEN "lock_order_read" ELSE "unlock"]
    /\ UNCHANGED <<otherVars, cache, access_order>>

\* "self.access_order.read()" of health_check
LockOrderRead(t) ==
    /\ procs[t].pc = "lock_order_read"
    /\ locks.access_order.writer = "none"
    /\ locks' = [locks EXCEPT !.access_order.readers = @ \cup {t}]
    /\ procs' = [procs EXCEPT ![t].pc =
                    IF t \in locks.cache.readers THEN "unlock"
                    ELSE "lock_cache"]
    /\ UNCHANGED <<otherVars, cache, access_order>>

\* a get that gives up the map guard once it has cloned the entry
AfterLookupReleases(lk) == [lk EXCEPT !.cache.writer = "none"]

\* the locks after "cache.get(key)?.clone()" found the key: the guard is
\* bound to a local and lives to the end of get
AfterLookup(lk) == lk

\* "let entry = cache.get(key)?.clone()": a missing key ends the call
Lookup(t) ==
    /\ procs[t].pc = "lookup"
    /\ IF procs[t].key \in DOMAIN cache
       THEN /\ procs' = [procs EXCEPT ![t].pc = "lock_order"]
            /\ locks' = AfterLookup(locks)
       ELSE /\ procs' = [procs EXCEPT ![t] = Idle]
            /\ locks' = [locks EXCEPT !.cache.writer = "none"]
    /\ UNCHANGED <<otherVars, cache, access_order>>

\* "self.access_order.write()"
LockOrder(t) ==
    /\ procs[t].pc = "lock_order"
    /\ locks.access_order.writer = "none"
    /\ locks.access_order.readers = {}
    /\ locks' = [locks EXCEPT !.access_order.writer = t]
    /\ procs' = [procs EXCEPT ![t].pc =
                    IF procs[t].op = "store" THEN "evict" ELSE "retain"]
    /\ UNCHANGED <<otherVars, cache, access_order>>

\* "while cache.len() >= self.max_entries { if let Some(oldest) =
\* order.pop_front()"
EvictPop(t) ==
    /\ procs[t].pc = "evict"
    /\ IF Cardinality(DOMAIN cache) >= policy.max_hot_entries
          /\ access_order # <<>>
       THEN /\ access_order' = Tail(access_order)
            /\ procs' = [procs EXCEPT ![t].pc = "evict_remove",
                                      ![t].dirty = TRUE,
                                      ![t].oldest = Head(access_order)]
       ELSE /\ procs' = [procs EXCEPT ![t].pc = "retain"]
            /\ UNCHANGED access_order
    /\ UNCHANGED <<otherVars, cache, locks>>

\* "cache.remove(&oldest)"
EvictRemove(t) ==
    /\ procs[t].pc = "evict_remove"
    /\ cache' = Restrict(cache, DOMAIN cache \ {procs[t].oldest})
    /\ procs' = [procs EXCEPT ![t].pc = "evict"]
    /\ UNCHANGED <<otherVars, access_order, locks>>

\* "order.retain(|k| k != key)" of get, store and remove
RetainStep(t) ==
    /\ procs[t].pc = "retain"
    /\ access_order' = Retain(access_order, procs[t].key)
    /\ procs' = [procs EXCEPT ![t].dirty = TRUE,
                              ![t].pc = IF procs[t].op = "get" THEN "push"
                                        ELSE IF procs[t].op = "store"
                                        THEN "insert"
                                        ELSE "cache_remove"]
    /\ UNCHANGED <<otherVars, cache, locks>>

\* "cache.insert(key.clone(), entry)"
InsertStep(t) ==
    /\ procs[t].pc = "insert"
    /\ cache' = [k \in DOMAIN cache \cup {procs[t].key} |->
                    IF k = procs[t].key
                    THEN NewEntry(k, "v1", "Normal", now, nextId)
                    ELSE cache[k]]
    /\ procs' = [procs EXCEPT ![t].pc = "push"]
    /\ UNCHANGED <<otherVars, access_order, locks>>

\* "order.push_back(key)" of get and store
PushStep(t) ==
    /\ procs[t].pc = "push"
    /\ access_order' = Append(access_order, procs[t].key)
    /\ procs' = [procs EXCEPT ![t].pc = "unlock"]
    /\ UNCHANGED <<otherVars, cache, locks>>

\* "cache.remove(key).is_some()" of remove
CacheRemove(t) ==
    /\ procs[t].pc = "cache_remove"
    /\ cache' = Restrict(cache, DOMAIN cache \ {procs[t].key})
    /\ procs' = [procs EXCEPT ![t].pc = "unlock"]
    /\ UNCHANGED <<otherVars, access_order, locks>>

\* the end of the call: the guards the thread holds are dropped
Unlock(t) ==
    /\ procs[t].pc = "unlock"
    /\ locks' = [l \in DOMAIN locks |->
                    [locks[l] EXCEPT
                        !.writer = IF @ = t THEN "none" ELSE @,
                        !.readers = @ \ {t}]]
    /\ procs' = [procs EXCEPT ![t] = Idle]
    /\ UNCHANGED <<otherVars, cache, access_order>>

NextLocks ==
    \/ \E t \in Threads, k \in CallerKeys : Begin(t, "get", k)
    \/ \E t \in Threads, k \in CallerKeys : Begin(t, "store", k)
    \/ \E t \in Threads, k \in CallerKeys : Begin(t, "remove", k)
    \/ \E t \in Threads, op \in ReadOps : Begin(t, op, "")
    \/ \E t \in Threads : LockCache(t)
    \/ \E t \in Threads : LockCacheRead(t)
    \/ \E t \in Threads : LockOrderRead(t)
    \/ \E t \in Threads : Lookup(t)
    \/ \E t \in Threads : LockOrder(t)
    \/ \E t \in Threads : EvictPop(t)
    \/ \E t \in Threads : EvictRemove(t)
    \/ \E t \in Threads : RetainStep(t)
    \/ \E t \in Threads : InsertStep(t)
    \/ \E t \in Threads : PushStep(t)
    \/ \E t \in Threads : CacheRemove(t)
    \/ \E t \in Threads : Unlock(t)

SpecLocks == InitHot /\ [][NextLocks]_vars

\* the recency order holds exactly the keys of the map, each once
Consistent(c, o) ==
    /\ {o[i] : i \in 1..Len(o)} = DOMAIN c
    /\ Len(o) = Cardinality(DOMAIN c)

\* the thread holds a guard of the map and has not written yet: what it
\* reads is what the other operations left
Observes(t) ==
    /\ procs[t].pc # "idle"
    /\ locks.cache.writer = t \/ t \in locks.cache.readers
    /\ ~procs[t].dirty

\* C26: the updates of HotMemory are atomic for one another: get, store and
\* remove hold the write guard of the map from their first statement to
\* their last, so no operation, running at the same time as a get and a
\* store, finds a key in the map without a recency record or a recency
\* record without its key in the map
C26_AtomicUpdates ==
    \A t \in Threads : Observes(t) => Consistent(cache, access_order)

\* a get has taken the key out of the recency order and not yet put it back,
\* while a store called by another thread waits for the map
C26_Witness ==
    \E t, u \in Threads :
        /\ procs[t].op = "get"
        /\ procs[t].pc = "push"
        /\ ~Consistent(cache, access_order)
        /\ procs[u].op = "store"
        /\ procs[u].pc = "lock_cache"

\* C26 as stated: the updates of HotMemory are not atomic: while a get is
\* between its read of the map and its update of the recency order, a store
\* run by another thread can go ahead and meet the map and the order in
\* disagreement
C26_NotAtomic ==
    \A t, u \in Threads :
        ( /\ procs[t].op = "get"
          /\ procs[t].pc \in {"lock_order", "retain", "push"}
          /\ procs[u].op = "store"
          /\ procs[u].pc = "lock_cache" ) =>
            (locks.cache.writer = "none" /\ locks.cache.readers = {})

-----------------------------------------------------------------------------
(* The facade used by several callers at once, tier call by tier call: each
   call on HotMemory, WarmMemory or ColdMemory is one step (the locks of the
   hot tier and the SQL statements make it atomic), and the steps of
   different callers interleave *)

AllIdle == \A t \in Threads : procs[t].pc = "idle"

\* a call of the facade in progress: its next tier call, its key, the entry
\* it holds, the entries it has still to migrate, those it has selected, and
\* the Warm rows its latest warm.store took the place of
FacadeCall(op, key, pc) ==
    [op |-> op, key |-> key, pc |-> pc, entry |-> <<>>, todo |-> <<>>,
     selected |-> {}, replaced |-> {}]

\* the entries of the keys S of the map c in the order ord
EntriesOf(c, S, ord) ==
    [i \in 1..Len(OrderBy(S, ord)) |-> c[OrderBy(S, ord)[i]]]

\* the rows of the keys S of Warm, as entries, in the order ord
RowsOf(w, S, ord) ==
    [i \in 1..Len(OrderBy(S, ord)) |->
        WarmEntry(WarmRowOf(w, OrderBy(S, ord)[i]))]

\* a caller calls recall(key), forget(key) or maintain()
BeginRecall(t, key) ==
    /\ procs[t].pc = "idle"
    /\ procs' = [procs EXCEPT ![t] = FacadeCall("recall", key, "recall_hot")]
    /\ UNCHANGED <<otherVars, cache, access_order, locks>>

BeginForget(t, key) ==
    /\ procs[t].pc = "idle"
    /\ procs' = [procs EXCEPT ![t] = FacadeCall("forget", key, "forget_hot")]
    /\ UNCHANGED <<otherVars, cache, access_order, locks>>

BeginMaintain(t) ==
    /\ procs[t].pc = "idle"
    /\ procs' = [procs EXCEPT ![t] = FacadeCall("maintain", "", "select")]
    /\ UNCHANGED <<otherVars, cache, access_order, locks>>

\* recall: "if let Some(entry) = self.hot.get(key) { return ... }"
RecallHot(t) ==
    /\ procs[t].pc = "recall_hot"
    /\ access_order' = HotGetOrder(cache, access_order, procs[t].key)
    /\ touch' = IF procs[t].key \in DOMAIN cache
                THEN Stamp(touch, procs[t].key, DOMAIN cache) ELSE touch
    /\ procs' = [procs EXCEPT ![t] =
                    IF procs[t].key \in DOMAIN cache THEN Idle
                    ELSE [@ EXCEPT !.pc = "recall_warm"]]
    /\ UNCHANGED <<twin, policy, now, warm, cold, nextId, last, latest, critical,
                   scen, cache, locks>>

\* recall: "if let Some(entry) = self.warm.get(key)?"
RecallWarm(t) ==
    /\ procs[t].pc = "recall_warm"
    /\ IF WarmGet(warm, procs[t].key).rows # {}
       THEN \E r \in WarmGet(warm, procs[t].key).rows :
               procs' = [procs EXCEPT ![t].entry = <<Promoted(WarmEntry(r))>>,
                                      ![t].pc = "recall_store"]
       ELSE procs' = [procs EXCEPT ![t].pc = "recall_cold"]
    /\ UNCHANGED <<otherVars, cache, access_order, locks>>

\* recall: "if let Some(entry) = self.cold.get(key)?", else Ok(None)
RecallCold(t) ==
    /\ procs[t].pc = "recall_cold"
    /\ IF ColdGet(cold, procs[t].key).rows # {}
       THEN \E r \in ColdGet(cold, procs[t].key).rows :
               procs' = [procs EXCEPT ![t].entry = <<Promoted(ColdEntry(r))>>,
                                      ![t].pc = "recall_store"]
       ELSE procs' = [procs EXCEPT ![t] = Idle]
    /\ UNCHANGED <<otherVars, cache, access_order, locks>>

\* recall: "self.hot.store(promoted.clone()); return Ok(Some(promoted))"
RecallStore(t) ==
    /\ procs[t].pc = "recall_store"
    /\ \E h \in {HotStore(cache, access_order, procs[t].entry[1],
                          policy.max_hot_entries)} :
          /\ cache' = h.cache
          /\ access_order' = h.order
          /\ touch' = Stamp(touch, procs[t].key, DOMAIN h.cache)
    /\ procs' = [procs EXCEPT ![t] = Idle]
    /\ UNCHANGED <<twin, policy, now, warm, cold, nextId, last, latest, critical,
                   scen, locks>>

\* forget: "self.hot.remove(key)"
ForgetHot(t) ==
    /\ procs[t].pc = "forget_hot"
    /\ \E h \in {HotRemove(cache, access_order, procs[t].key)} :
          /\ cache' = h.cache
          /\ access_order' = h.order
          /\ touch' = Renorm(touch, DOMAIN h.cache)
    /\ procs' = [procs EXCEPT ![t].pc = "forget_warm"]
    /\ UNCHANGED <<twin, policy, now, warm, cold, nextId, last, latest, critical,
                   scen, locks>>

\* forget: "self.warm.delete(key)?"
ForgetWarm(t) ==
    /\ procs[t].pc = "forget_warm"
    /\ warm' = WarmDelete(warm, procs[t].key)
    /\ procs' = [procs EXCEPT ![t].pc = "forget_cold"]
    /\ UNCHANGED <<twin, policy, now, cold, nextId, last, latest, critical, scen,
                   touch, cache, access_order, locks>>

\* forget: "self.cold.delete(key)?" and the return; the key counts as
\* forgotten from here on
ForgetCold(t) ==
    /\ procs[t].pc = "forget_cold"
    /\ cold' = ColdDelete(cold, procs[t].key)
    /\ latest' = [latest EXCEPT ![procs[t].key] = "none"]
    /\ critical' = critical \ {procs[t].key}
    /\ procs' = [procs EXCEPT ![t] = Idle]
    /\ UNCHANGED <<twin, policy, now, warm, nextId, last, scen, touch, cache,
                   access_order, locks>>

\* maintain: the counts, then "let to_promote =
\* self.hot.get_entries_for_promotion()", met in the order ord
MaintainSelect(t, ord) ==
    /\ procs[t].pc = "select"
    /\ \E es \in {EntriesOf(cache, PromotionKeys(cache, now), ord)} :
          procs' = [procs EXCEPT
                      ![t].todo = es,
                      ![t].selected = {es[i] : i \in 1..Len(es)},
                      ![t].pc = IF es = <<>> THEN "query" ELSE "warm_store"]
    /\ UNCHANGED <<otherVars, cache, access_order, locks>>

\* maintain: "promoted.tier = MemoryTier::Warm; self.warm.store(&promoted)?"
MaintainStore(t) ==
    /\ procs[t].pc = "warm_store"
    /\ warm' = WarmStore(warm, [Head(procs[t].todo) EXCEPT !.tier = "Warm"])
    /\ procs' = [procs EXCEPT
                    ![t].pc = "hot_remove",
                    ![t].replaced = {r \in warm :
                                        \/ r.key = Head(procs[t].todo).key
                                        \/ r.id = Head(procs[t].todo).id}]
    /\ UNCHANGED <<twin, policy, now, cold, nextId, last, latest, critical, scen,
                   touch, cache, access_order, locks>>

\* maintain: "self.hot.remove(&entry.key)" and the next turn of the loop
MaintainRemove(t) ==
    /\ procs[t].pc = "hot_remove"
    /\ \E h \in {HotRemove(cache, access_order, Head(procs[t].todo).key)} :
          /\ cache' = h.cache
          /\ access_order' = h.order
          /\ touch' = Renorm(touch, DOMAIN h.cache)
    /\ procs' = [procs EXCEPT
                    ![t].todo = Tail(@),
                    ![t].replaced = {},
                    ![t].pc = IF Tail(procs[t].todo) = <<>> THEN "query"
                              ELSE "warm_store"]
    /\ UNCHANGED <<twin, policy, now, warm, cold, nextId, last, latest, critical,
                   scen, locks>>

\* maintain: "let to_archive = self.warm.get_entries_for_archival()?", met
\* in the order ord; with nothing to archive the pass ends with the counts
MaintainQuery(t, ord) ==
    /\ procs[t].pc = "query"
    /\ \E es \in {RowsOf(warm, ArchivalKeys(warm, now), ord)} :
          procs' = [procs EXCEPT ![t] =
                      IF es = <<>> THEN Idle
                      ELSE [@ EXCEPT
                              !.todo = es,
                              !.selected = @ \cup {es[i] : i \in 1..Len(es)},
                              !.pc = "cold_archive"]]
    /\ UNCHANGED <<otherVars, cache, access_order, locks>>

\* maintain: "self.cold.archive(entry)?"
MaintainArchive(t) ==
    /\ procs[t].pc = "cold_archive"
    /\ cold' = ColdArchive(cold, Head(procs[t].todo), now)
    /\ procs' = [procs EXCEPT ![t].pc = "warm_delete"]
    /\ UNCHANGED <<twin, policy, now, warm, nextId, last, latest, critical, scen,
                   touch, cache, access_order, locks>>

\* maintain: "self.warm.delete(&entry.key)?" and the next turn of the loop,
\* or the counts and the return
MaintainDelete(t) ==
    /\ procs[t].pc = "warm_delete"
    /\ warm' = WarmDelete(warm, Head(procs[t].todo).key)
    /\ procs' = [procs EXCEPT ![t] =
                    IF Tail(procs[t].todo) = <<>> THEN Idle
                    ELSE [@ EXCEPT !.todo = Tail(@), !.pc = "cold_archive"]]
    /\ UNCHANGED <<twin, policy, now, cold, nextId, last, latest, critical, scen,
                   touch, cache, access_order, locks>>

\* maintain stops where it is: the durable-store call it was about to make
\* fails and "?" returns, or the process ends; the tiers stay as they are
MaintainStop(t) ==
    /\ procs[t].op = "maintain"
    /\ procs[t].pc \in {"warm_store", "hot_remove", "query", "cold_archive",
                        "warm_delete"}
    /\ procs' = [procs EXCEPT ![t] = Idle]
    /\ UNCHANGED <<otherVars, cache, access_order, locks>>

\* calls made while no other call is in progress
QuietRemember(key) == AllIdle /\ RememberAbsent(key, "v1")

QuietRecall(key) == AllIdle /\ Recall(key, 0)

QuietForget(key) == AllIdle /\ Forget(key, 0)

QuietTick(t) == AllIdle /\ Tick(t)

\* one caller; its maintain() runs tier call by tier call and can stop at
\* any of them
NextSteps ==
    \/ \E k \in CallerKeys : QuietRemember(k)
    \/ \E k \in RecallKeys : QuietRecall(k)
    \/ \E k \in RecallKeys : QuietForget(k)
    \/ \E t \in Instants : QuietTick(t)
    \/ BeginMaintain("t1")
    \/ \E ord \in OrdersOf(CallerKeys) : MaintainSelect("t1", ord)
    \/ MaintainStore("t1")
    \/ MaintainRemove("t1")
    \/ \E ord \in OrdersOf(CallerKeys) : MaintainQuery("t1", ord)
    \/ MaintainArchive("t1")
    \/ MaintainDelete("t1")
    \/ MaintainStop("t1")

SpecSteps == Init /\ [][NextSteps]_vars

\* the entry e is held by Hot, Warm or Cold
InSomeTier(e) ==
    \/ e.key \in DOMAIN cache /\ SameEntry(cache[e.key], e)
    \/ InColderTier(e, warm, cold)

\* C29: at every step of maintain(), also where it stops between the write
\* to the destination tier and the delete from the source tier, every entry
\* the pass has selected for migration is held by at least one tier
C29_MigrationLosesNothing ==
    \A t \in Threads :
        procs[t].op = "maintain" =>
            \A e \in procs[t].selected : InSomeTier(e)

\* a pass between its write and its delete, in both migrations: the entry it
\* is promoting is in Hot and in Warm, or the entry it is archiving, which it
\* promoted before, is in Warm and in Cold
C29_Witness ==
    \E t \in Threads :
        /\ procs[t].op = "maintain"
        /\ procs[t].pc = "warm_delete"
        /\ Cardinality(procs[t].selected) > 1
        /\ \E r \in warm : r.key = Head(procs[t].todo).key
        /\ \E r \in cold : r.key = Head(procs[t].todo).key
        /\ cold # {} /\ cache = <<>>

\* two callers whose recall, forget and maintain interleave; remember is
\* called only while no other call is in progress
NextRace ==
    \/ \E k \in RecallKeys : QuietRemember(k)
    \/ \E t \in Instants : QuietTick(t)
    \/ \E t \in Threads, k \in RecallKeys : BeginRecall(t, k)
    \/ \E t \in Threads, k \in RecallKeys : BeginForget(t, k)
    \/ \E t \in Threads : BeginMaintain(t)
    \/ \E t \in Threads : RecallHot(t)
    \/ \E t \in Threads : RecallWarm(t)
    \/ \E t \in Threads : RecallCold(t)
    \/ \E t \in Threads : RecallStore(t)
    \/ \E t \in Threads : ForgetHot(t)
    \/ \E t \in Threads : ForgetWarm(t)
    \/ \E t \in Threads : ForgetCold(t)
    \/ \E t \in Threads, ord \in OrdersOf(CallerKeys) : MaintainSelect(t, ord)
    \/ \E t \in Threads : MaintainStore(t)
    \/ \E t \in Threads : MaintainRemove(t)
    \/ \E t \in Threads, ord \in OrdersOf(CallerKeys) : MaintainQuery(t, ord)
    \/ \E t \in Threads : MaintainArchive(t)
    \/ \E t \in Threads : MaintainDelete(t)

SpecRace == Init /\ [][NextRace]_vars

\* C30: with forget(k) running at the same time as recall(k) or maintain()
\* and no remember(k) issued since, once all calls have completed k is
\* absent from Hot, Warm and Cold
C30_ForgetWinsRaces ==
    \A k \in Keys :
        (AllIdle /\ latest[k] = "none") => ~Present(k)

-----------------------------------------------------------------------------
(* TieredMemory::remember used by several callers at once. Its update path
   makes three calls on the hot tier, hot.get(key).is_some(),
   hot.get(key).unwrap() and hot.store(entry), and other callers' tier calls
   can run between them *)

RememberCall(key, content) ==
    [op |-> "remember", key |-> key, pc |-> "remember_check",
     content |-> content, entry |-> <<>>]

BeginRemember(t, key, content) ==
    /\ procs[t].pc = "idle"
    /\ key \in DOMAIN cache => cache[key].access_count < MaxAccess
    /\ nextId <= MaxIds
    /\ procs' = [procs EXCEPT ![t] = RememberCall(key, content)]
    /\ UNCHANGED <<otherVars, cache, access_order, locks>>

\* remember: "if self.hot.get(key).is_some()"
RememberCheck(t) ==
    /\ procs[t].pc = "remember_check"
    /\ access_order' = HotGetOrder(cache, access_order, procs[t].key)
    /\ touch' = IF procs[t].key \in DOMAIN cache
                THEN Stamp(touch, procs[t].key, DOMAIN cache) ELSE touch
    /\ procs' = [procs EXCEPT ![t].pc =
                    IF procs[t].key \in DOMAIN cache THEN "remember_read"
                    ELSE "remember_new"]
    /\ UNCHANGED <<twin, policy, now, warm, cold, nextId, last, latest, critical,
                   scen, cache, locks>>

\* remember: "let mut entry = self.hot.get(key).unwrap()" and the three
\* assignments to the copy; unwrap panics when the key has left Hot
RememberRead(t) ==
    /\ procs[t].pc = "remember_read"
    /\ access_order' = HotGetOrder(cache, access_order, procs[t].key)
    /\ IF procs[t].key \in DOMAIN cache
       THEN /\ procs' = [procs EXCEPT
                   ![t].entry = <<RememberEntry(cache, procs[t].key,
                                      procs[t].content, "Normal", now, nextId)>>,
                   ![t].pc = "remember_store"]
            /\ touch' = Stamp(touch, procs[t].key, DOMAIN cache)
            /\ last' = last
       ELSE /\ procs' = [procs EXCEPT ![t] = Idle]
            /\ touch' = touch
            /\ last' = [Obs("remember", procs[t].key, procs[t].content, "none",
                            FALSE, "none", <<>>, FALSE, NoReport, {})
                        EXCEPT !.panicked = TRUE]
    /\ UNCHANGED <<twin, policy, now, warm, cold, nextId, latest, critical, scen,
                   cache, locks>>

\* the number of remember calls applied to the entry of key in a row
AppliedAfter(key, e) ==
    IF last.op = "remember" /\ last.ok /\ last.key = key /\ last.applied > 0
    THEN last.applied + 1
    ELSE e.access_count

\* remember: "self.hot.store(entry); return Ok(())" of the update path
RememberStore(t) ==
    /\ procs[t].pc = "remember_store"
    /\ \E h \in {HotStore(cache, access_order, procs[t].entry[1],
                          policy.max_hot_entries)} :
          /\ cache' = h.cache
          /\ access_order' = h.order
          /\ touch' = Stamp(touch, procs[t].key, DOMAIN h.cache)
          /\ last' = [Obs("remember", procs[t].key, procs[t].content, "none",
                          TRUE, "hot", procs[t].entry, FALSE, NoReport,
                          Changed(h.cache, h.order, warm, cold))
                      EXCEPT !.applied =
                                AppliedAfter(procs[t].key, procs[t].entry[1])]
    /\ latest' = [latest EXCEPT ![procs[t].key] = procs[t].content]
    /\ procs' = [procs EXCEPT ![t] = Idle]
    /\ UNCHANGED <<twin, policy, now, warm, cold, nextId, critical, scen, locks>>

\* remember: "let entry = TieredMemoryEntry::new(..); self.hot.store(entry)"
RememberCreate(t) ==
    /\ procs[t].pc = "remember_new"
    /\ \E e \in {NewEntry(procs[t].key, procs[t].content, "Normal", now,
                          nextId)} :
        \E h \in {HotStore(cache, access_order, e, policy.max_hot_entries)} :
          /\ cache' = h.cache
          /\ access_order' = h.order
          /\ touch' = Stamp(touch, procs[t].key, DOMAIN h.cache)
          /\ last' = [Obs("remember", procs[t].key, procs[t].content, "none",
                          TRUE, "none", <<e>>, FALSE, NoReport,
                          Changed(h.cache, h.order, warm, cold))
                      EXCEPT !.applied = 1]
    /\ nextId' = nextId + 1
    /\ latest' = [latest EXCEPT ![procs[t].key] = procs[t].content]
    /\ critical' = critical \ {procs[t].key}
    /\ procs' = [procs EXCEPT ![t] = Idle]
    /\ UNCHANGED <<twin, policy, now, warm, cold, scen, locks>>

\* the instants of a clock that stops where an entry remembered at the start
\* is old enough for Warm and not yet for Cold
WarmInstants == {30 * TicksPerDay + TicksPerDay \div 2}

\* one caller remembers the key of RecallKeys while another runs maintain()
NextUpdate ==
    \/ \E k \in RecallKeys : QuietRemember(k)
    \/ \E t \in WarmInstants : QuietTick(t)
    \/ \E k \in RecallKeys, v \in Contents : BeginRemember("t1", k, v)
    \/ RememberCheck("t1")
    \/ RememberRead("t1")
    \/ RememberStore("t1")
    \/ RememberCreate("t1")
    \/ BeginMaintain("t2")
    \/ \E ord \in OrdersOf(CallerKeys) : MaintainSelect("t2", ord)
    \/ MaintainStore("t2")
    \/ MaintainRemove("t2")
    \/ \E ord \in OrdersOf(CallerKeys) : MaintainQuery("t2", ord)

SpecUpdate == Init /\ [][NextUpdate]_vars

\* C31: once a remember(k, v) and a maintain() pass that ran at the same
\* time have both completed, recall(k) returns the content v of the last
\* remember
C31_UpdateSurvivesMaintain ==
    \A k \in RecallKeys :
        (AllIdle /\ latest[k] # "none") =>
            \A r \in RecallOutcomes(cache, access_order, warm, cold, k,
                                    policy.max_hot_entries, 0) :
                r.ok /\ Len(r.res) = 1 /\ r.res[1].content = latest[k]

\* one caller remembers the key of RecallKeys while another forgets it, runs
\* maintain() or remembers another key, which evicts from a full Hot
NextRemember ==
    \/ \E k \in RecallKeys : QuietRemember(k)
    \/ \E t \in Instants : QuietTick(t)
    \/ \E k \in RecallKeys, v \in Contents : BeginRemember("t1", k, v)
    \/ \E k \in CallerKeys \ RecallKeys : BeginRemember("t2", k, "v1")
    \/ \E t \in Threads : RememberCheck(t)
    \/ \E t \in Threads : RememberRead(t)
    \/ \E t \in Threads : RememberStore(t)
    \/ \E t \in Threads : RememberCreate(t)
    \/ \E k \in RecallKeys : BeginForget("t2", k)
    \/ ForgetHot("t2")
    \/ ForgetWarm("t2")
    \/ ForgetCold("t2")
    \/ BeginMaintain("t2")
    \/ \E ord \in OrdersOf(CallerKeys) : MaintainSelect("t2", ord)
    \/ MaintainStore("t2")
    \/ MaintainRemove("t2")
    \/ \E ord \in OrdersOf(CallerKeys) : MaintainQuery("t2", ord)
    \/ MaintainArchive("t2")
    \/ MaintainDelete("t2")

SpecRemember == Init /\ [][NextRemember]_vars

\* C32: every remember call that has ended returned Ok(()): none ended in a
\* panic of its update path because the key had left Hot between the
\* existence check and the read of the entry
C32_RememberAlwaysSucceeds ==
    last.op = "remember" => (last.ok /\ ~last.panicked)

\* two callers remember the key of RecallKeys at the same time
NextTwice ==
    \/ \E k \in RecallKeys : QuietRemember(k)
    \/ \E t \in Instants : QuietTick(t)
    \/ \E t \in Threads, k \in RecallKeys, v \in Contents :
          BeginRemember(t, k, v)
    \/ \E t \in Threads : RememberCheck(t)
    \/ \E t \in Threads : RememberRead(t)
    \/ \E t \in Threads : RememberStore(t)
    \/ \E t \in Threads : RememberCreate(t)

SpecTwice == Init /\ [][NextTwice]_vars

\* C33: once the remember calls on a key in Hot have completed, the entry's
\* access_count has grown by one for each of them and its content is that of
\* the call that completed last
C33_BothUpdatesApplied ==
    (AllIdle /\ last.op = "remember" /\ last.ok /\ last.applied > 0
       /\ last.key \in DOMAIN cache) =>
        /\ cache[last.key].access_count = last.applied
        /\ cache[last.key].content = last.content

-----------------------------------------------------------------------------
(* The recency order and the locks of HotMemory under concurrent callers *)

\* C34: whenever no operation of HotMemory is in progress, the recency order
\* holds exactly the keys of the map, each exactly once
C34_OrderMatchesMap == AllIdle => Consistent(cache, access_order)

\* two keys are held and the one stored first has been moved to the back
C34_Witness ==
    /\ AllIdle
    /\ Cardinality(DOMAIN cache) = 2
    /\ Len(access_order) = 2
    /\ access_order = <<"b", "a">>

\* the thread holds the lock l
Holds(t, l) == locks[l].writer = t \/ t \in locks[l].readers

\* the thread's next statement can run
CanStep(t) ==
    ENABLED (\/ LockCache(t) \/ LockCacheRead(t) \/ LockOrderRead(t)
             \/ Lookup(t) \/ LockOrder(t) \/ EvictPop(t) \/ EvictRemove(t)
             \/ RetainStep(t) \/ InsertStep(t) \/ PushStep(t)
             \/ CacheRemove(t) \/ Unlock(t))

\* C35: the operations of HotMemory never deadlock: a thread that holds the
\* recency-order lock also holds the map lock (the map lock is always taken
\* first), and whenever an operation is in progress the next statement of
\* some operation in progress can run
C35_NoDeadlock ==
    /\ \A t \in Threads : Holds(t, "access_order") => Holds(t, "cache")
    /\ AllIdle \/ \E t \in Threads : procs[t].pc # "idle" /\ CanStep(t)

\* one thread holds the map lock and the other waits for it
C35_Witness ==
    /\ Holds("t1", "cache") /\ Holds("t1", "access_order")
    /\ procs["t2"].pc = "lock_cache"
    /\ ~CanStep("t2")

-----------------------------------------------------------------------------
(* Two instances of HotMemory of the same capacity that are given the same
   calls of store, get and remove, the entries stored differing in their
   priorities only *)

PairPriorities == {"Critical", "Normal"}

\* the entries of c that are no longer in d, other than that of key
Evicted(c, d, key) == {c[k] : k \in DOMAIN c \ (DOMAIN d \cup {key})}

\* store(entry) on both instances: priority p in the first, q in the second
PairStore(key, content, p, q) ==
    \E h \in {HotStore(cache, access_order,
                       NewEntry(key, content, p, now, nextId),
                       policy.max_hot_entries)},
       g \in {HotStore(twin.cache, twin.order,
                       NewEntry(key, content, q, now, nextId),
                       policy.max_hot_entries)} :
        /\ cache' = h.cache
        /\ access_order' = h.order
        /\ twin' = g
        /\ last' = Obs("pair_store", key, content, "none", TRUE, "none",
                       IF Evicted(cache, h.cache, key) # {}
                          /\ Evicted(twin.cache, g.cache, key) # {}
                       THEN <<CHOOSE e \in Evicted(cache, h.cache, key) : TRUE,
                              CHOOSE e \in Evicted(twin.cache, g.cache, key) :
                                 TRUE>>
                       ELSE <<>>,
                       FALSE, NoReport, Changed(h.cache, h.order, warm, cold))
        /\ UNCHANGED <<policy, locks, procs, now, warm, cold, nextId, latest,
                       critical, touch, scen>>

\* get(key) on both instances
PairGet(key) ==
    /\ access_order' = HotGetOrder(cache, access_order, key)
    /\ twin' = Hot(twin.cache, HotGetOrder(twin.cache, twin.order, key))
    /\ last' = Obs("pair_get", key, "", "none", TRUE, "none", <<>>,
                   key \in DOMAIN cache, NoReport,
                   Changed(cache, HotGetOrder(cache, access_order, key),
                           warm, cold))
    /\ UNCHANGED <<policy, locks, procs, now, cache, warm, cold, nextId,
                   latest, critical, touch, scen>>

\* remove(key) on both instances
PairRemove(key) ==
    \E h \in {HotRemove(cache, access_order, key)} :
        /\ cache' = h.cache
        /\ access_order' = h.order
        /\ twin' = HotRemove(twin.cache, twin.order, key)
        /\ last' = Obs("pair_remove", key, "", "none", TRUE, "none", <<>>,
                       key \in DOMAIN cache, NoReport,
                       Changed(h.cache, h.order, warm, cold))
        /\ UNCHANGED <<policy, locks, procs, now, warm, cold, nextId, latest,
                       critical, touch, scen>>

NextPair ==
    \/ \E k \in Keys, p \in PairPriorities, q \in PairPriorities :
          PairStore(k, "v1", p, q)
    \/ \E k \in Keys : PairGet(k)
    \/ \E k \in Keys : PairRemove(k)

SpecPair == InitHot /\ [][NextPair]_vars

-----------------------------------------------------------------------------
(* The durable tiers under the facade *)

\* C37: no row of Warm or Cold has priority Critical
C37_CriticalStaysInHot ==
    /\ \A r \in warm : PriorityFromStr(r.priority) # "Critical"
    /\ \A r \in cold : PriorityFromStr(r.priority) # "Critical"

\* a second maintain pass in a row has run sixty-two days after a Critical
\* entry was remembered, and the entry is in Hot
C37_Witness ==
    /\ last.op = "maintain" /\ last.ok /\ last.after = "maintain"
    /\ \E k \in DOMAIN cache :
          /\ cache[k].priority = "Critical"
          /\ Age(cache[k].timestamp) >= 62 * TicksPerDay

\* Warm holds at most one row per key
OneRowPerKey(w) == \A r1 \in w, r2 \in w : r1.key = r2.key => r1 = r2

\* a warm.store of maintain whose key is already in Warm puts the row of the
\* stored entry in the place of the existing one and leaves the count as it is
StoreReplaces ==
    \A t \in Threads :
        (/\ procs[t].pc = "warm_store"
         /\ procs'[t].pc = "hot_remove"
         /\ Head(procs[t].todo).key \in WarmKeys(warm)) =>
            /\ WarmCount(warm') = WarmCount(warm)
            /\ {r \in warm' : r.key = Head(procs[t].todo).key} =
                  {WarmRow([Head(procs[t].todo) EXCEPT !.tier = "Warm"])}

\* C38: Warm holds at most one row per key in every reachable state, and
\* WarmMemory::store of an entry whose key is present replaces the existing
\* row, id included, without changing the Warm count
C38_OneWarmRowPerKey == [](OneRowPerKey(warm)) /\ [][StoreReplaces]_vars

\* maintain has just stored an entry over a Warm row of the same key that
\* had another id
C38_Witness ==
    \E t \in Threads :
        /\ procs[t].pc = "hot_remove"
        /\ \E r \in procs[t].replaced :
              /\ r.key = Head(procs[t].todo).key
              /\ r.id # Head(procs[t].todo).id
        /\ WarmCount(warm) = 1

-----------------------------------------------------------------------------
(* The read operations of the facade while durable stores are out of order:
   every call made on a store of the set down returns an error, the calls on
   the other stores answer *)

Outages == {{}, {"warm"}, {"cold"}, {"warm", "cold"}}

\* search and count ask Warm before Cold whatever they hold, so for them
\* both stores out of order is the case of Warm out of order
SingleOutages == {{}, {"warm"}, {"cold"}}

\* the call of TieredMemory::recall that fails: 0 none, 1 warm.get, 2 cold.get
RecallFault(c, w, key, down) ==
    IF key \in DOMAIN c THEN 0
    ELSE IF "warm" \in down THEN 1
    ELSE IF WarmGet(w, key).rows # {} THEN 0
    ELSE IF "cold" \in down THEN 2
    ELSE 0

\* the tiers TieredMemory::recall asks
RecallAsks(c, w, key, down) ==
    IF key \in DOMAIN c THEN {"hot"}
    ELSE IF "warm" \in down \/ WarmGet(w, key).rows # {} THEN {"hot", "warm"}
    ELSE {"hot", "warm", "cold"}

RecallDuring(key, down) ==
    \E f \in {RecallFault(cache, warm, key, down)} :
      \E r \in RecallOutcomes(cache, access_order, warm, cold, key,
                              policy.max_hot_entries, f) :
        /\ cache' = r.hot.cache
        /\ access_order' = r.hot.order
        /\ touch' = IF r.touched
                    THEN Stamp(touch, key, DOMAIN r.hot.cache) ELSE touch
        /\ scen' = ScenStep(scen, "recall", key)
        /\ last' = [Obs("recall", key, "", AfterOf("recall", key), r.ok,
                        r.src, r.res, FALSE, NoReport,
                        Changed(r.hot.cache, r.hot.order, warm, cold))
                    EXCEPT !.fault = f, !.down = down,
                           !.queried = RecallAsks(cache, warm, key, down)]
        /\ UNCHANGED <<twin, policy, locks, procs, now, warm, cold, nextId,
                       latest, critical>>

\* the call of search or count that fails if it is made: the Warm one comes
\* first
FirstFault(down) ==
    IF "warm" \in down THEN 1 ELSE IF "cold" \in down THEN 2 ELSE 0

SearchDuring(query, limit, down) ==
    \E r \in SearchOutcomes(cache, warm, cold, query, limit,
                            FirstFault(down)) :
        /\ last' = [Obs("search", "", query, "none", r.ok, "none", r.res,
                        FALSE, NoReport, {})
                    EXCEPT !.limit = limit, !.queried = r.asked,
                           !.down = down,
                           !.fault = IF r.ok THEN 0 ELSE FirstFault(down)]
        /\ scen' = ScenStep(scen, "search", "")
        /\ UNCHANGED <<twin, policy, locks, procs, now, cache, access_order,
                       warm, cold, nextId, latest, critical, touch>>

CountDuring(down) ==
    /\ last' = [Obs("count", "", "", "none", FirstFault(down) = 0, "none",
                    <<>>, FALSE, NoReport, {})
                EXCEPT !.total = IF FirstFault(down) = 0
                                 THEN TieredCount(cache, warm, cold) ELSE 0,
                       !.down = down, !.fault = FirstFault(down)]
    /\ scen' = ScenStep(scen, "count", "")
    /\ UNCHANGED <<twin, policy, locks, procs, now, cache, access_order,
                   warm, cold, nextId, latest, critical, touch>>

NextOutage ==
    \/ \E k \in CallerKeys : \E c \in ContentsOf(k) : RememberAbsent(k, c)
    \/ \E ord \in OrdersOf(CallerKeys) : Maintain(ord, 0)
    \/ \E t \in Instants : Tick(t)
    \/ \E k \in RecallKeys, d \in Outages : RecallDuring(k, d)
    \/ \E q \in Queries, n \in Limits, d \in SingleOutages :
          SearchDuring(q, n, d)
    \/ \E d \in SingleOutages : CountDuring(d)

SpecOutage == Init /\ [][NextOutage]_vars

\* C40: a recall, search or count in which a Warm or Cold lookup fails
\* returns the error with no result and leaves Hot, its recency order, Warm
\* and Cold as they were; a recall that fails at Warm has not asked Cold; a
\* recall of a key held by Hot succeeds and asks Hot only, whatever stores
\* are out of order
C40_ReadFailuresChangeNothing ==
    [][ /\ (last'.op \in {"recall", "search", "count"} /\ last'.fault # 0) =>
              /\ ~last'.ok
              /\ last'.resEntry = <<>>
              /\ last'.total = 0
              /\ cache' = cache
              /\ access_order' = access_order
              /\ warm' = warm
              /\ cold' = cold
        /\ (last'.op \in {"recall", "search", "count"} /\ last'.fault = 0) =>
              last'.ok
        /\ (last'.op = "recall" /\ last'.fault = 1) =>
              "cold" \notin last'.queried
        /\ (last'.op = "recall" /\ last'.key \in DOMAIN cache) =>
              /\ last'.ok
              /\ last'.resEntry = <<cache[last'.key]>>
              /\ last'.queried = {"hot"}
      ]_vars

\* a search has failed at Cold while Hot held an entry that matches the query
C40_Witness ==
    /\ last.op = "search" /\ ~last.ok /\ last.fault = 2
    /\ last.resEntry = <<>>
    /\ \E k \in DOMAIN cache : HotContains(cache[k].content, last.content)
    /\ warm # {}

\* a recall of a key held by Hot has succeeded with both stores out of order
HotHitDuringOutage ==
    /\ last.op = "recall" /\ last.ok /\ last.src = "hot"
    /\ last.down = {"warm", "cold"}

-----------------------------------------------------------------------------
(* An entry that is left alone while maintain() is called again and again
   and the clock advances. The key of RecallKeys is remembered once, early
   enough for the clock to advance thirty-one days more; the other key is
   remembered only while that would not evict the first from Hot; nothing is
   recalled or forgotten *)

LastInstant == 62 * TicksPerDay

RememberOnce(key, content) ==
    /\ latest[key] = "none"
    /\ now + 31 * TicksPerDay <= LastInstant
    /\ RememberAbsent(key, content)

RememberCriticalOnce(key, content) ==
    /\ latest[key] = "none"
    /\ now + 31 * TicksPerDay <= LastInstant
    /\ key \notin DOMAIN cache
    /\ Remember(key, content, "Critical")

RememberBeside(key, kept) ==
    /\ kept \notin DOMAIN cache
    /\ RememberAbsent(key, "v1")

\* the next tier call of a maintain() pass in progress
MaintainStep(t) ==
    \/ \E ord \in OrdersOf(CallerKeys) : MaintainSelect(t, ord)
    \/ MaintainStore(t)
    \/ MaintainRemove(t)
    \/ \E ord \in OrdersOf(CallerKeys) : MaintainQuery(t, ord)
    \/ MaintainArchive(t)
    \/ MaintainDelete(t)

NextLive ==
    \/ \E k \in RecallKeys, c \in Contents : RememberOnce(k, c)
    \/ \E k \in RecallKeys, c \in Contents : RememberCriticalOnce(k, c)
    \/ \E k \in CallerKeys \ RecallKeys, kept \in RecallKeys :
          RememberBeside(k, kept)
    \/ \E t \in Instants : Tick(t)
    \/ BeginMaintain("t1")
    \/ MaintainStep("t1")

\* maintain() is called again and again, a pass in progress goes on, and the
\* clock advances
SpecLive ==
    /\ Init
    /\ [][NextLive]_vars
    /\ WF_vars(BeginMaintain("t1"))
    /\ WF_vars(MaintainStep("t1"))
    /\ WF_vars(\E t \in Instants : Tick(t))

\* the key is held by Cold and by no other tier
OnlyInCold(key) ==
    /\ key \notin DOMAIN cache
    /\ key \notin WarmKeys(warm)
    /\ key \in ColdKeys(cold)

\* the key has been remembered with a priority other than Critical
RememberedNotCritical(key) ==
    latest[key] # "none" /\ key \notin critical

\* every row written to Cold in this step is a row Warm holds
WarmBeforeCold ==
    \A r \in cold' \ cold :
        \E x \in warm : x.id = r.id /\ x.key = r.key /\ x.content = r.content

\* C39: with maintain() repeated fairly and the clock advancing, a
\* non-Critical entry that is remembered once and then left alone
\* eventually is held by Cold and by no other tier; every row written to
\* Cold was in Warm when it was written; and once only in Cold the entry
\* stays only in Cold
C39_EventuallyOnlyInCold ==
    /\ \A k \in RecallKeys : RememberedNotCritical(k) ~> OnlyInCold(k)
    /\ [][WarmBeforeCold]_vars
    /\ [][\A k \in RecallKeys : OnlyInCold(k) => OnlyInCold(k)']_vars

\* the entry remembered once is only in Cold, the pass that archived it has
\* ended and the clock is at its last instant
C39_Witness ==
    /\ \E k \in RecallKeys : RememberedNotCritical(k) /\ OnlyInCold(k)
    /\ AllIdle
    /\ now = LastInstant

====
